---- MODULE Spec2Model ----
(***************************************************************************)
(* A state-machine model of ckanext-versioned-datastore's multisearch      *)
(* actions (logic/actions/multisearch.py) and of the versioned field cache *)
(* (lib/utils.py).                                                         *)
(*                                                                         *)
(* Optional (None-able) Python values are modelled as sequences of length  *)
(* at most one: NoneV is None, Some(x) is the value x.                     *)
(***************************************************************************)
EXTENDS Integers, Sequences, FiniteSets, TLC

NoneV == << >>

Some(x) == << x >>

IsNone(o) == o = NoneV

Get(o) == o[1]

(***************************************************************************)
(* State.                                                                  *)
(***************************************************************************)
VARIABLES
    slugs,      \* the slug table: a set of slug records
    clock,      \* the time source read when a slug is created
    pc,         \* pc[p]: where request p is
    req,        \* req[p]: the arguments of the request p is running
    ret,        \* what the last slug request to finish returned or raised
    answers,    \* history: parameter hash -> the {slug, is_new} answers
                \* given for it, in the order they were returned
    calls       \* history: number of datastore_create_slug calls so far

VARIABLES
    esVersions,  \* esVersions[r]: the versions of resource r
    esMapping,   \* esMapping[r]: the data fields r's mapping declares
    esData,      \* << r, v, f >>: some record of r has a value for f at v
    ingests,     \* number of ingestion steps so far
    field_cache, \* the module-level dict of get_fields
    fcall,       \* what the last finished get_fields call did and returned
    fpc,         \* fpc[p]: where the get_fields call of request p is
    floc,        \* floc[p]: the local variables of that call
    fseen,       \* history: cache key -> result of the first call to finish
    fcalls       \* history: number of interleaved get_fields calls so far

VARIABLES
    esDocs,      \* the record documents held by the resource indexes
    accessible,  \* the resources the caller may see
    plugins,     \* the registered IVersionedDatastore implementations
    qlog,        \* the query log
    mcall,       \* the last action call: what was asked, done and answered
    cursor,      \* the paging client: the 'after' value it holds
    pages,       \* the paging client: the records it has been given
    spc,         \* the paging client: "paging", "done" or "failed"
    errSeen      \* history: failure case -> the error the caller last saw

VARIABLES
    esIndices,   \* the names of the indexes the backend holds
    esAliases,   \* the aliases the backend holds
    pkgPrivate,  \* package.private of the package the resources are in
    ppc,         \* ppc[p]: where the privacy update of request p is
    ploc,        \* ploc[p]: the local variables of that update
    plast,       \* history: the last update_privacy call to finish
    preq,        \* history: the last alias request the backend served
    pcalls       \* history: number of privacy updates asked for so far

slugVars == << slugs, clock, pc, req, ret, answers, calls >>

fieldVars ==
    << esVersions, esMapping, esData, ingests, field_cache, fcall, fpc, floc,
       fseen, fcalls >>

searchVars ==
    << esDocs, accessible, plugins, qlog, mcall, cursor, pages, spc, errSeen >>

privacyVars ==
    << esIndices, esAliases, pkgPrivate, ppc, ploc, plast, preq, pcalls >>

vars == << slugVars, fieldVars, searchVars, privacyVars >>

(***************************************************************************)
(* Bounds of the model.                                                    *)
(***************************************************************************)
NumProcs == 2

MaxSlugs == 2

Procs == 1..NumProcs

(***************************************************************************)
(* Query schema registry (lib/query/schema.py is not part of the sources:  *)
(* modelled from the specification, section 4.1).                          *)
(***************************************************************************)
KnownQueryVersions == {"v1", "v2"}

get_latest_query_version == "v2"

EmptyQuery == "{}"

WellFormedQueries == {EmptyQuery, "q1"}

\* validate(query, query_version) -> ok | SchemaError: an unknown schema
\* version is reported before the query is looked at.
validate_query(query, query_version) ==
    IF query_version \notin KnownQueryVersions
    THEN [ok |-> FALSE, raised |-> "InvalidQuerySchemaVersionError",
          message |-> "unknown query version"]
    ELSE IF query \notin WellFormedQueries
    THEN [ok |-> FALSE, raised |-> "jsonschema.ValidationError",
          message |-> "query fails schema"]
    ELSE [ok |-> TRUE, raised |-> "", message |-> ""]

\* hash_query(q, v): a pure digest of the query and its schema version,
\* taken to be collision free.
hash_query(query, query_version) == << "sha1", query, query_version >>

(***************************************************************************)
(* Slug store.  lib/query/slugs.py (create_slug, resolve_slug) is not part *)
(* of the sources: it is modelled from the specification, sections 4.5 and *)
(* 5 (content addressing, insert-if-absent, lookup by slug string).        *)
(***************************************************************************)
RequestVersion == 1

SlugArgs ==
    { [query |-> NoneV, query_version |-> NoneV, version |-> NoneV,
       resource_ids |-> NoneV, resource_ids_and_versions |-> NoneV,
       pretty_slug |-> TRUE],
      [query |-> Some(EmptyQuery), query_version |-> Some("v2"),
       version |-> NoneV, resource_ids |-> NoneV,
       resource_ids_and_versions |-> NoneV, pretty_slug |-> FALSE],
      [query |-> Some("q1"), query_version |-> Some("v1"),
       version |-> Some(RequestVersion), resource_ids |-> Some(<< 1, 2 >>),
       resource_ids_and_versions |-> NoneV, pretty_slug |-> TRUE],
      [query |-> Some("q1"), query_version |-> NoneV, version |-> NoneV,
       resource_ids |-> NoneV,
       resource_ids_and_versions |-> Some([r \in {1} |-> RequestVersion]),
       pretty_slug |-> TRUE],
      [query |-> Some("bad"), query_version |-> NoneV, version |-> NoneV,
       resource_ids |-> NoneV, resource_ids_and_versions |-> NoneV,
       pretty_slug |-> TRUE],
      [query |-> NoneV, query_version |-> Some("v9"), version |-> NoneV,
       resource_ids |-> NoneV, resource_ids_and_versions |-> NoneV,
       pretty_slug |-> FALSE] }

SlugStrings == {"pretty", "uuid"} \X (1..MaxSlugs)

\* The content hash of the canonical parameter tuple.
SlugHash(a) ==
    << hash_query(a.query, a.query_version), a.version, a.resource_ids,
       a.resource_ids_and_versions >>

NewSlug(a, s, now) ==
    [slug_string |-> s, hash |-> SlugHash(a), query |-> a.query,
     query_version |-> a.query_version, version |-> a.version,
     resource_ids |-> a.resource_ids,
     resource_ids_and_versions |-> a.resource_ids_and_versions,
     created |-> now]

\* the strings a new slug can get: the next unused phrase or identifier of
\* its kind (which one is picked is immaterial to the store)
FreeStrings(store, pretty) ==
    LET kind == IF pretty THEN "pretty" ELSE "uuid"
        free == { n \in 1..MaxSlugs :
                    \A x \in store : x.slug_string # << kind, n >> }
    IN  { << kind, n >> : n \in { m \in free : \A k \in free : m <= k } }

\* create_slug without the lookup by hash: every valid call inserts
create_slug_NoLookup(store, now, a) ==
    LET v == validate_query(a.query, a.query_version)
    IN  IF ~v.ok
        THEN { [raised |-> v.raised, message |-> v.message, is_new |-> FALSE,
                slug |-> NoneV, store |-> store] }
        ELSE { [raised |-> "", message |-> "", is_new |-> TRUE,
                slug |-> Some(NewSlug(a, s, now)),
                store |-> store \cup {NewSlug(a, s, now)}] :
                  s \in FreeStrings(store, a.pretty_slug) }
             \cup { [raised |-> "OperationalError",
                     message |-> "database unavailable", is_new |-> FALSE,
                     slug |-> NoneV, store |-> store] }

\* create_slug(context, query, query_version, version, resource_ids,
\* resource_ids_and_versions, pretty_slug) -> (is_new, slug): the set of
\* outcomes of one call against the table `store` at time `now`.  The
\* lookup-or-insert is one atomic step of the persistence layer.  A pretty
\* slug whose phrase keeps colliding gives up and yields no slug; the
\* database may fail with an error of its own.
create_slug(store, now, a) ==
    LET v == validate_query(a.query, a.query_version)
        same == { x \in store : x.hash = SlugHash(a) }
        outcome(raised, message, is_new, slug, store2) ==
            [raised |-> raised, message |-> message, is_new |-> is_new,
             slug |-> slug, store |-> store2]
    IN  IF ~v.ok
        THEN { outcome(v.raised, v.message, FALSE, NoneV, store) }
        ELSE { outcome("OperationalError", "database unavailable", FALSE,
                       NoneV, store) }
             \cup
             (IF same # {}
              THEN { outcome("", "", FALSE, Some(x), store) : x \in same }
              ELSE { outcome("", "", TRUE, Some(NewSlug(a, s, now)),
                             store \cup {NewSlug(a, s, now)}) :
                        s \in FreeStrings(store, a.pretty_slug) }
                   \cup
                   (IF a.pretty_slug
                       /\ \E x \in store : x.slug_string[1] = "pretty"
                    THEN { outcome("", "", FALSE, NoneV, store) }
                    ELSE {}))

\* resolve_slug(slug_string) -> Slug | None
resolve_slug(store, s) ==
    IF \E x \in store : x.slug_string = s
    THEN Some(CHOOSE x \in store : x.slug_string = s)
    ELSE NoneV

(***************************************************************************)
(* The actions' shared pieces (logic/actions/multisearch.py).              *)
(***************************************************************************)
\* query = {} and query_version = latest when omitted
ApplyDefaults(a) ==
    [a EXCEPT !.query = IF IsNone(a.query) THEN EmptyQuery ELSE Get(a.query),
              !.query_version = IF IsNone(a.query_version)
                                THEN get_latest_query_version
                                ELSE Get(a.query_version)]

\* the exceptions the except clauses name
ValidationErrorKinds ==
    {"jsonschema.ValidationError", "InvalidQuerySchemaVersionError"}

\* an except clause that catches every exception
Raise_ConvertAll(raised, message) ==
    [status |-> "error", kind |-> "toolkit.ValidationError",
     message |-> message]

\* no except clause: the validator's exception leaves the action
Raise_PassThrough(raised, message) ==
    [status |-> "error", kind |-> raised, message |-> message]

\* an exception leaving a try block: toolkit.ValidationError for the kinds
\* the except clause names, the exception itself otherwise
Raise(raised, message) ==
    [status |-> "error",
     kind |-> IF raised \in ValidationErrorKinds
              THEN "toolkit.ValidationError" ELSE raised,
     message |-> message]

ValidationError(message) ==
    [status |-> "error", kind |-> "toolkit.ValidationError",
     message |-> message]

isoformat(t) == << "iso", t >>

\* datastore_create_slug reporting every slug it returns as new
CreateSlugResponse_AlwaysNew(out) ==
    IF out.raised # ""
    THEN Raise(out.raised, out.message)
    ELSE IF IsNone(out.slug)
    THEN ValidationError("Failed to generate new slug")
    ELSE [status |-> "ok", slug |-> Get(out.slug).slug_string,
          is_new |-> TRUE]

\* datastore_create_slug without the check for a missing slug: the call of
\* get_slug_string on None raises AttributeError
CreateSlugResponse_NoCheck(out) ==
    IF out.raised # ""
    THEN Raise(out.raised, out.message)
    ELSE IF IsNone(out.slug)
    THEN [status |-> "error", kind |-> "AttributeError",
          message |-> "'NoneType' object has no attribute 'get_slug_string'"]
    ELSE [status |-> "ok", slug |-> Get(out.slug).slug_string,
          is_new |-> out.is_new]

\* datastore_create_slug, after create_slug has returned `out`
CreateSlugResponse(out) ==
    IF out.raised # ""
    THEN Raise(out.raised, out.message)
    ELSE IF IsNone(out.slug)
    THEN ValidationError("Failed to generate new slug")
    ELSE [status |-> "ok", slug |-> Get(out.slug).slug_string,
          is_new |-> out.is_new]

\* an answer that takes the slug asked for as found
SlugNotFound_Echo(s) == [status |-> "ok", slug |-> s]

\* raise toolkit.ValidationError(u'Slug not found')
SlugNotFound(s) == ValidationError("Slug not found")

\* datastore_resolve_slug answering with the defaults instead of the stored
\* query and schema version
datastore_resolve_slug_Defaults(store, s) ==
    LET found_slug == resolve_slug(store, s)
    IN  IF IsNone(found_slug)
        THEN SlugNotFound(s)
        ELSE [status |-> "ok",
              query |-> EmptyQuery,
              query_version |-> get_latest_query_version,
              version |-> Get(found_slug).version,
              resource_ids |-> Get(found_slug).resource_ids,
              resource_ids_and_versions |->
                  Get(found_slug).resource_ids_and_versions,
              created |-> isoformat(Get(found_slug).created)]

\* datastore_resolve_slug
datastore_resolve_slug(store, s) ==
    LET found_slug == resolve_slug(store, s)
    IN  IF IsNone(found_slug)
        THEN SlugNotFound(s)
        ELSE [status |-> "ok",
              query |-> Get(found_slug).query,
              query_version |-> Get(found_slug).query_version,
              version |-> Get(found_slug).version,
              resource_ids |-> Get(found_slug).resource_ids,
              resource_ids_and_versions |->
                  Get(found_slug).resource_ids_and_versions,
              created |-> isoformat(Get(found_slug).created)]

(***************************************************************************)
(* Slug requests.  Requests run concurrently: a request is called, blocks  *)
(* on the persistence layer, and returns.                                  *)
(***************************************************************************)
MaxCalls == 3

NoReq == [op |-> "none"]

NoRet == [status |-> "none"]

SlugHashes == { SlugHash(ApplyDefaults(a)) : a \in SlugArgs }

SlugParams(a) ==
    [query |-> a.query, query_version |-> a.query_version,
     version |-> a.version, resource_ids |-> a.resource_ids,
     resource_ids_and_versions |-> a.resource_ids_and_versions]

InFlight(q, h) == pc[q] = "create_slug" /\ SlugHash(req[q].args) = h

SlugInit ==
    /\ slugs = {}
    /\ clock = 1
    /\ pc = [p \in Procs |-> "idle"]
    /\ req = [p \in Procs |-> NoReq]
    /\ ret = NoRet
    /\ answers = [h \in SlugHashes |-> << >>]
    /\ calls = 0

\* datastore_create_slug is entered: the defaults are applied and
\* create_slug is called
CallCreateSlug(p, a) ==
    LET args == ApplyDefaults(a)
        h == SlugHash(args)
        racing == { q \in Procs \ {p} : InFlight(q, h) }
    IN  /\ pc[p] = "idle"
        /\ calls < MaxCalls
        /\ calls' = calls + 1
        /\ pc' = [pc EXCEPT ![p] = "create_slug"]
        /\ req' = [q \in Procs |->
                      IF q = p
                      THEN [op |-> "create_slug", args |-> args,
                            raced |-> racing # {}]
                      ELSE IF q \in racing
                      THEN [req[q] EXCEPT !.raced = TRUE]
                      ELSE req[q]]
        /\ UNCHANGED privacyVars
        /\ UNCHANGED << slugs, clock, ret, answers, fieldVars, searchVars >>

\* create_slug returns or raises, and datastore_create_slug answers
ReturnCreateSlug(p) ==
    /\ pc[p] = "create_slug"
    /\ \E out \in create_slug(slugs, clock, req[p].args) :
          LET r == CreateSlugResponse(out)
              h == SlugHash(req[p].args)
          IN  /\ slugs' = out.store
              /\ clock' = IF out.store = slugs THEN clock ELSE clock + 1
              /\ ret' = r
              /\ answers' =
                    IF r.status = "ok"
                    THEN [answers EXCEPT ![h] = Append(@,
                            [slug |-> r.slug, is_new |-> r.is_new,
                             raced |-> req[p].raced,
                             params |-> SlugParams(req[p].args),
                             created |-> Get(out.slug).created])]
                    ELSE answers
    /\ pc' = [pc EXCEPT ![p] = "idle"]
    /\ req' = [req EXCEPT ![p] = NoReq]
    /\ UNCHANGED privacyVars
    /\ UNCHANGED << calls, fieldVars, searchVars >>

\* a lookup that takes the slug it found out of the table
ResolveSlug_Consume(s) ==
    /\ ret' = datastore_resolve_slug(slugs, s)
    /\ slugs' = { x \in slugs : x.slug_string # s }
    /\ UNCHANGED privacyVars
    /\ UNCHANGED << clock, pc, req, answers, calls, fieldVars, searchVars >>

\* datastore_resolve_slug(slug): one lookup
ResolveSlug(s) ==
    /\ ret' = datastore_resolve_slug(slugs, s)
    /\ UNCHANGED privacyVars
    /\ UNCHANGED << slugs, clock, pc, req, answers, calls, fieldVars,
                    searchVars >>

SlugNext ==
    \/ \E p \in Procs, a \in SlugArgs : CallCreateSlug(p, a)
    \/ \E p \in Procs : ReturnCreateSlug(p)
    \/ \E s \in SlugStrings : ResolveSlug(s)

(***************************************************************************)
(* The search backend as get_fields sees it (lib/utils.py): per resource   *)
(* index, the versions the status index lists, the data fields the index   *)
(* mapping declares, and which fields have a value in some record at which *)
(* version.  History is append-only: ingestion adds fields to the mapping  *)
(* while it indexes and then registers a new version; what is recorded for *)
(* a registered version never changes.                                     *)
(***************************************************************************)
MaxIngests == 4

Resources == {1, 2}

DataFields == {"A", "b"}

\* every field name the model uses, in the order sorted() gives them
FieldOrder == << "A", "_id", "a", "b" >>

prefix_resource(resource_id) == << "nhm-", resource_id >>

prefix_field(field) == << "data", field >>

SetMax(S) == CHOOSE x \in S : \A y \in S : y <= x

\* SEARCHER.get_rounded_versions([index], version)[index]: the latest
\* version at or before the requested one (the latest of all when none is
\* requested), None when there is none
get_rounded_versions(index, version) ==
    LET r == index[2]
        upto == IF IsNone(version) THEN esVersions[r]
                ELSE { v \in esVersions[r] : v <= Get(version) }
    IN  IF upto = {} THEN NoneV ELSE Some(SetMax(upto))

\* SEARCHER.elasticsearch.indices.get_mapping(index)[index]
get_mapping(index) == esMapping[index[2]]

\* sorted(mapping[...][u'data'][u'properties'])
sorted(names) == SelectSeq(FieldOrder, LAMBDA f : f \in names)

\* list.remove(x)
remove(list, x) == SelectSeq(list, LAMBDA f : f # x)

\* one sub-search of the batch: the number of records of the index that
\* have the field at the rounded version
hits_total(index, field, rounded_version) ==
    IF << index[2], rounded_version, field[2] >> \in esData THEN 1 ELSE 0

\* search.execute(): one response per search added, in the order added
execute(index, field_names, rounded_version) ==
    [i \in 1..Len(field_names) |->
        hits_total(index, prefix_field(field_names[i]), rounded_version)]

RECURSIVE AppendFound_Reversed(_, _, _, _)
\* a loop that attributes the responses to the fields in reverse order
AppendFound_Reversed(fields, field_names, responses, i) ==
    IF i > Len(responses) THEN fields
    ELSE AppendFound_Reversed(
             IF responses[i] > 0
             THEN Append(fields,
                         [id |-> field_names[Len(field_names) + 1 - i],
                          type |-> "string"])
             ELSE fields,
             field_names, responses, i + 1)

RECURSIVE AppendFound(_, _, _, _)
\* the loop over enumerate(responses)
AppendFound(fields, field_names, responses, i) ==
    IF i > Len(responses) THEN fields
    ELSE AppendFound(IF responses[i] > 0
                     THEN Append(fields, [id |-> field_names[i],
                                          type |-> "string"])
                     ELSE fields,
                     field_names, responses, i + 1)

IdField == [id |-> "_id", type |-> "integer"]

CacheKey(resource_id, rounded_version) == << resource_id, rounded_version >>

\* a store that rebinds the dict to one holding only the new entry
CachePut_Rebind(cache, key, value) == [k \in {key} |-> value]

\* field_cache[cache_key] = value
CachePut(cache, key, value) ==
    [k \in DOMAIN cache \cup {key} |-> IF k = key THEN value ELSE cache[k]]

\* the field list get_fields builds on a miss
BuildFields(index, mapping, rounded_version) ==
    LET field_names == remove(sorted(mapping), "_id")
        responses == execute(index, field_names, rounded_version)
    IN  AppendFound(<< IdField >>, field_names, responses, 1)

\* get_fields without the early return on a cached key
get_fields_NoCacheCheck(cache, resource_id, version) ==
    LET index == prefix_resource(resource_id)
        rounded_version == get_rounded_versions(index, version)
        cache_key == CacheKey(resource_id, rounded_version)
        mapping == get_mapping(index)
    IN  IF IsNone(rounded_version)
        THEN [result |-> << mapping, << IdField >> >>, cache |-> cache,
              rounded |-> rounded_version, mapping_fetches |-> 1,
              exists_queries |-> 0]
        ELSE LET fields == BuildFields(index, mapping, Get(rounded_version))
             IN  [result |-> << mapping, fields >>,
                  cache |-> CachePut(cache, cache_key, << mapping, fields >>),
                  rounded |-> rounded_version, mapping_fetches |-> 1,
                  exists_queries |-> Len(remove(sorted(mapping), "_id"))]

\* get_fields storing what it returns also when there is no version
get_fields_StoreIncomplete(cache, resource_id, version) ==
    LET index == prefix_resource(resource_id)
        rounded_version == get_rounded_versions(index, version)
        cache_key == CacheKey(resource_id, rounded_version)
        mapping == get_mapping(index)
        fields == IF IsNone(rounded_version) THEN << IdField >>
                  ELSE BuildFields(index, mapping, Get(rounded_version))
    IN  IF cache_key \in DOMAIN cache
        THEN [result |-> cache[cache_key], cache |-> cache,
              rounded |-> rounded_version, mapping_fetches |-> 0,
              exists_queries |-> 0]
        ELSE [result |-> << mapping, fields >>,
              cache |-> CachePut(cache, cache_key, << mapping, fields >>),
              rounded |-> rounded_version, mapping_fetches |-> 1,
              exists_queries |-> IF IsNone(rounded_version) THEN 0
                                 ELSE Len(remove(sorted(mapping), "_id"))]

\* get_fields(resource_id, version) run from start to end: what it returns,
\* the dict it leaves, and the backend requests it made
get_fields(cache, resource_id, version) ==
    LET index == prefix_resource(resource_id)
        rounded_version == get_rounded_versions(index, version)
        cache_key == CacheKey(resource_id, rounded_version)
        mapping == get_mapping(index)
    IN  IF cache_key \in DOMAIN cache
        THEN [result |-> cache[cache_key], cache |-> cache,
              rounded |-> rounded_version, mapping_fetches |-> 0,
              exists_queries |-> 0]
        ELSE IF IsNone(rounded_version)
        THEN [result |-> << mapping, << IdField >> >>, cache |-> cache,
              rounded |-> rounded_version, mapping_fetches |-> 1,
              exists_queries |-> 0]
        ELSE LET fields == BuildFields(index, mapping, Get(rounded_version))
             IN  [result |-> << mapping, fields >>,
                  cache |-> CachePut(cache, cache_key, << mapping, fields >>),
                  rounded |-> rounded_version, mapping_fetches |-> 1,
                  exists_queries |-> Len(remove(sorted(mapping), "_id"))]

VersionArgs == {NoneV} \cup { Some(v) : v \in 0..MaxIngests }

NoCall == [status |-> "none"]

NoLocals == [status |-> "none"]

FieldInit ==
    /\ esVersions = [r \in Resources |-> {}]
    /\ esMapping = [r \in Resources |-> {"_id"}]
    /\ esData = {}
    /\ ingests = 0
    /\ field_cache = << >>
    /\ fcall = NoCall
    /\ fpc = [p \in Procs |-> "idle"]
    /\ floc = [p \in Procs |-> NoLocals]
    /\ fseen = << >>
    /\ fcalls = 0

\* ingestion indexes a record with a field the mapping did not have
PutMapping(r, f) ==
    /\ ingests < MaxIngests
    /\ ingests' = ingests + 1
    /\ f \notin esMapping[r]
    /\ esMapping' = [esMapping EXCEPT ![r] = @ \cup {f}]
    /\ UNCHANGED privacyVars
    /\ UNCHANGED << esVersions, esData, field_cache, fcall, fpc, floc, fseen,
                    fcalls, slugVars,
                    searchVars >>

\* ingestion registers the next version of a resource
NewVersion(r, populated) ==
    LET v == Cardinality(esVersions[r]) + 1
    IN  /\ ingests < MaxIngests
        /\ ingests' = ingests + 1
        /\ populated \subseteq esMapping[r] \ {"_id"}
        /\ esVersions' = [esVersions EXCEPT ![r] = @ \cup {v}]
        /\ esData' = esData \cup { << r, v, f >> : f \in populated }
        /\ UNCHANGED privacyVars
        /\ UNCHANGED << esMapping, field_cache, fcall, fpc, floc, fseen,
                        fcalls, slugVars,
                    searchVars >>

MaxFieldCalls == 3

\* get_fields is entered by request p: the index name and the rounded
\* version are worked out
FCall(p, r, version) ==
    /\ fpc[p] = "idle"
    /\ fcalls < MaxFieldCalls
    /\ fcalls' = fcalls + 1
    /\ fpc' = [fpc EXCEPT ![p] = "check"]
    /\ floc' = [floc EXCEPT ![p] =
                  [status |-> "running", resource_id |-> r,
                   rounded |-> get_rounded_versions(prefix_resource(r),
                                                    version)]]
    /\ UNCHANGED privacyVars
    /\ UNCHANGED << esVersions, esMapping, esData, ingests, field_cache,
                    fcall, fseen, slugVars,
                    searchVars >>

FReturn(l, result, missed) ==
    [status |-> "returned", resource_id |-> l.resource_id,
     rounded |-> l.rounded, result |-> result, missed |-> missed]

\* if cache_key in field_cache: return field_cache[cache_key]
FCheck(p) ==
    LET cache_key == CacheKey(floc[p].resource_id, floc[p].rounded)
    IN  /\ fpc[p] = "check"
        /\ IF cache_key \in DOMAIN field_cache
           THEN /\ fpc' = [fpc EXCEPT ![p] = "idle"]
                /\ floc' = [floc EXCEPT ![p] =
                              FReturn(@, field_cache[cache_key], FALSE)]
           ELSE /\ fpc' = [fpc EXCEPT ![p] = "get_mapping"]
                /\ floc' = floc
        /\ UNCHANGED privacyVars
        /\ UNCHANGED << esVersions, esMapping, esData, ingests, field_cache,
                        fcall, fseen, fcalls, slugVars,
                    searchVars >>

\* the mapping is fetched; with no version the call returns it at once
FGetMapping(p) ==
    LET mapping == get_mapping(prefix_resource(floc[p].resource_id))
    IN  /\ fpc[p] = "get_mapping"
        /\ IF IsNone(floc[p].rounded)
           THEN /\ fpc' = [fpc EXCEPT ![p] = "idle"]
                /\ floc' = [floc EXCEPT ![p] =
                              FReturn(@, << mapping, << IdField >> >>, TRUE)]
           ELSE /\ fpc' = [fpc EXCEPT ![p] = "execute"]
                /\ floc' = [floc EXCEPT ![p] =
                              [status |-> "running",
                               resource_id |-> @.resource_id,
                               rounded |-> @.rounded, mapping |-> mapping]]
        /\ UNCHANGED privacyVars
        /\ UNCHANGED << esVersions, esMapping, esData, ingests, field_cache,
                        fcall, fseen, fcalls, slugVars,
                    searchVars >>

\* the batch of existence searches runs and the field list is built
FExecute(p) ==
    /\ fpc[p] = "execute"
    /\ fpc' = [fpc EXCEPT ![p] = "store"]
    /\ floc' = [floc EXCEPT ![p] =
                  [status |-> "running", resource_id |-> @.resource_id,
                   rounded |-> @.rounded, mapping |-> @.mapping,
                   fields |-> BuildFields(prefix_resource(@.resource_id),
                                          @.mapping, Get(@.rounded))]]
    /\ UNCHANGED privacyVars
    /\ UNCHANGED << esVersions, esMapping, esData, ingests, field_cache,
                    fcall, fseen, fcalls, slugVars,
                    searchVars >>

\* field_cache[cache_key] = (mapping, fields); return mapping, fields
FStore(p) ==
    LET cache_key == CacheKey(floc[p].resource_id, floc[p].rounded)
        value == << floc[p].mapping, floc[p].fields >>
    IN  /\ fpc[p] = "store"
        /\ field_cache' = CachePut(field_cache, cache_key, value)
        /\ fpc' = [fpc EXCEPT ![p] = "idle"]
        /\ floc' = [floc EXCEPT ![p] = FReturn(@, value, TRUE)]
        /\ UNCHANGED privacyVars
        /\ UNCHANGED << esVersions, esMapping, esData, ingests, fcall, fseen,
                        fcalls, slugVars,
                    searchVars >>

\* one get_fields call, run without interruption
GetFields(r, version) ==
    LET out == get_fields(field_cache, r, version)
        key == CacheKey(r, out.rounded)
    IN  /\ field_cache' = out.cache
        /\ fcall' = [status |-> "done", resource_id |-> r,
                     rounded |-> out.rounded, result |-> out.result,
                     mapping_fetches |-> out.mapping_fetches,
                     exists_queries |-> out.exists_queries,
                     repeat |-> key \in DOMAIN fseen]
        /\ fseen' = IF IsNone(out.rounded) \/ key \in DOMAIN fseen
                    THEN fseen
                    ELSE CachePut(fseen, key, out.result)
        /\ UNCHANGED privacyVars
        /\ UNCHANGED << esVersions, esMapping, esData, ingests, fpc, floc,
                        fcalls, slugVars,
                    searchVars >>

FieldNext ==
    \/ \E r \in Resources, f \in DataFields : PutMapping(r, f)
    \/ \E r \in Resources, F \in SUBSET DataFields : NewVersion(r, F)
    \/ \E r \in Resources, version \in VersionArgs : GetFields(r, version)

FieldConcNext ==
    \/ \E r \in Resources, f \in DataFields : PutMapping(r, f)
    \/ \E r \in Resources, F \in SUBSET DataFields : NewVersion(r, F)
    \/ \E p \in Procs, r \in Resources, version \in VersionArgs :
          FCall(p, r, version)
    \/ \E p \in Procs : FCheck(p)
    \/ \E p \in Procs : FGetMapping(p)
    \/ \E p \in Procs : FExecute(p)
    \/ \E p \in Procs : FStore(p)

(***************************************************************************)
(* Resource privacy (lib/utils.py).  A resource is public while the alias  *)
(* pub<index> of its index exists.  update_privacy asks the backend        *)
(* whether the index exists, then whether the alias exists, then adds or   *)
(* deletes the alias: three requests, between which other requests to the  *)
(* backend may be served.                                                  *)
(***************************************************************************)
MaxPrivacyCalls == 3

get_public_alias_prefix == "pub"

get_public_alias_name(resource_id) ==
    << get_public_alias_prefix, prefix_resource(resource_id) >>

\* an alias of an index, as the backend holds it
Alias(index_name, alias_name) == [index |-> index_name, alias |-> alias_name]

\* the alias that makes resource r public
PublicAlias(r) == Alias(prefix_resource(r), get_public_alias_name(r))

\* SEARCHER.elasticsearch.indices.exists(index_name)
exists(indices, index_name) == index_name \in indices

\* SEARCHER.elasticsearch.indices.exists_alias(index_name, name)
exists_alias(aliases, index_name, name) == Alias(index_name, name) \in aliases

\* package.resource_groups_all / resource_group.resources_all: the resources
\* of the package, in the order the loops visit them
PackageResources == << 1, 2 >>

NoRequest == [op |-> "none"]

\* the locals of one update_privacy call; todo are the resources
\* update_resources_privacy has still to visit after it
PrivacyFrame(resource_id, is_private, todo, alone) ==
    [status |-> "running", resource_id |-> resource_id,
     op |-> IF is_private THEN "make_private" ELSE "make_public",
     is_private |-> is_private, todo |-> todo, alone |-> alone,
     before |-> esAliases, issued |-> 0]

\* the processes with a privacy update in flight, besides p
OthersInFlight(p) == { q \in Procs \ {p} : ppc[q] # "idle" }

\* process p enters update_privacy: every call in flight now overlaps it
Enter(p, resource_id, is_private, todo) ==
    /\ ppc[p] = "idle"
    /\ pcalls < MaxPrivacyCalls
    /\ pcalls' = pcalls + 1
    /\ ppc' = [ppc EXCEPT ![p] = "exists"]
    /\ ploc' = [q \in Procs |->
                  IF q = p
                  THEN PrivacyFrame(resource_id, is_private, todo,
                                    OthersInFlight(p) = {})
                  ELSE IF q \in OthersInFlight(p)
                  THEN [ploc[q] EXCEPT !.alone = FALSE]
                  ELSE ploc[q]]
    /\ UNCHANGED << esIndices, esAliases, pkgPrivate, plast, preq >>

\* update_privacy(resource_id, is_private=None) is called
PUpdatePrivacy(p, resource_id, is_private) ==
    /\ Enter(p, resource_id,
             IF IsNone(is_private) THEN pkgPrivate ELSE Get(is_private),
             << >>)
    /\ UNCHANGED << slugVars, fieldVars, searchVars >>

\* update_resources_privacy(package) is called
PUpdateResourcesPrivacy(p) ==
    /\ Enter(p, Head(PackageResources), pkgPrivate, Tail(PackageResources))
    /\ UNCHANGED << slugVars, fieldVars, searchVars >>

\* the update_privacy call of p returns or raises with the aliases as given:
\* where p goes on, and the record of the call
After(p, aliases, issued, raised) ==
    LET f == ploc[p]
        more == f.todo # << >> /\ raised = ""
    IN  [pc |-> IF more THEN "exists" ELSE "idle",
         loc |-> IF more
                 THEN [PrivacyFrame(Head(f.todo), f.is_private, Tail(f.todo),
                                    f.alone)
                       EXCEPT !.before = aliases]
                 ELSE NoLocals,
         last |-> [status |-> "done", resource_id |-> f.resource_id,
                   is_private |-> f.is_private, alone |-> f.alone,
                   index_exists |->
                       exists(esIndices, prefix_resource(f.resource_id)),
                   before |-> f.before, after |-> aliases,
                   issued |-> issued, raised |-> raised,
                   repeat |-> /\ plast.status = "done"
                              /\ plast.alone
                              /\ plast.raised = ""
                              /\ plast.resource_id = f.resource_id
                              /\ plast.is_private = f.is_private]]

\* if SEARCHER.elasticsearch.indices.exists(index_name)
PExists(p) ==
    /\ ppc[p] = "exists"
    /\ IF exists(esIndices, prefix_resource(ploc[p].resource_id))
       THEN /\ ppc' = [ppc EXCEPT ![p] = "exists_alias"]
            /\ UNCHANGED << ploc, plast >>
       ELSE LET after == After(p, esAliases, ploc[p].issued, "")
            IN  /\ ppc' = [ppc EXCEPT ![p] = after.pc]
                /\ ploc' = [ploc EXCEPT ![p] = after.loc]
                /\ plast' = after.last
    /\ UNCHANGED << esIndices, esAliases, pkgPrivate, preq, pcalls, slugVars,
                    fieldVars, searchVars >>

\* if [not] SEARCHER.elasticsearch.indices.exists_alias(index_name,
\*                                                      public_index_name)
PExistsAlias(p) ==
    /\ ppc[p] = "exists_alias"
    /\ LET f == ploc[p]
           found == exists_alias(esAliases, prefix_resource(f.resource_id),
                                 get_public_alias_name(f.resource_id))
           after == After(p, esAliases, f.issued, "")
       IN  IF f.op = "make_private" /\ found
           THEN /\ ppc' = [ppc EXCEPT ![p] = "delete_alias"]
                /\ UNCHANGED << ploc, plast >>
           ELSE IF f.op = "make_public" /\ ~found
           THEN /\ ppc' = [ppc EXCEPT ![p] = "update_aliases"]
                /\ UNCHANGED << ploc, plast >>
           ELSE /\ ppc' = [ppc EXCEPT ![p] = after.pc]
                /\ ploc' = [ploc EXCEPT ![p] = after.loc]
                /\ plast' = after.last
    /\ UNCHANGED << esIndices, esAliases, pkgPrivate, preq, pcalls, slugVars,
                    fieldVars, searchVars >>

\* the alias request p issues for its resource, and whether the alias was
\* there when the backend served it
AliasRequest(p, op) ==
    [op |-> op, resource_id |-> ploc[p].resource_id,
     index |-> prefix_resource(ploc[p].resource_id),
     alias |-> get_public_alias_name(ploc[p].resource_id),
     present |-> PublicAlias(ploc[p].resource_id) \in esAliases]

\* SEARCHER.elasticsearch.indices.delete_alias(index_name,
\*                                             public_index_name):
\* the backend answers a delete of an alias it does not hold with 404,
\* which the client raises as NotFoundError
PDeleteAlias(p) ==
    /\ ppc[p] = "delete_alias"
    /\ LET request == AliasRequest(p, "delete")
           aliases == esAliases \ {Alias(request.index, request.alias)}
           after == After(p, aliases, ploc[p].issued + 1,
                          IF request.present THEN "" ELSE "NotFoundError")
       IN  /\ preq' = request
           /\ esAliases' = aliases
           /\ ppc' = [ppc EXCEPT ![p] = after.pc]
           /\ ploc' = [ploc EXCEPT ![p] = after.loc]
           /\ plast' = after.last
    /\ UNCHANGED << esIndices, pkgPrivate, pcalls, slugVars, fieldVars,
                    searchVars >>

\* SEARCHER.elasticsearch.indices.update_aliases({'actions': [{'add': ...}]})
PUpdateAliases(p) ==
    /\ ppc[p] = "update_aliases"
    /\ LET request == AliasRequest(p, "add")
           aliases == esAliases \cup {Alias(request.index, request.alias)}
           after == After(p, aliases, ploc[p].issued + 1, "")
       IN  /\ preq' = request
           /\ esAliases' = aliases
           /\ ppc' = [ppc EXCEPT ![p] = after.pc]
           /\ ploc' = [ploc EXCEPT ![p] = after.loc]
           /\ plast' = after.last
    /\ UNCHANGED << esIndices, pkgPrivate, pcalls, slugVars, fieldVars,
                    searchVars >>

\* no privacy update has been asked for and no index exists
PrivacyIdle ==
    /\ esIndices = {}
    /\ esAliases = {}
    /\ pkgPrivate = FALSE
    /\ ppc = [p \in Procs |-> "idle"]
    /\ ploc = [p \in Procs |-> NoLocals]
    /\ plast = NoCall
    /\ preq = NoRequest
    /\ pcalls = 0

\* some resources have an index, some of those are public, and the package
\* is private or not
PrivacyStart ==
    /\ esIndices \in SUBSET { prefix_resource(r) : r \in Resources }
    /\ esAliases \in
          SUBSET { PublicAlias(r) :
                     r \in { x \in Resources :
                               prefix_resource(x) \in esIndices } }
    /\ pkgPrivate \in BOOLEAN
    /\ ppc = [p \in Procs |-> "idle"]
    /\ ploc = [p \in Procs |-> NoLocals]
    /\ plast = NoCall
    /\ preq = NoRequest
    /\ pcalls = 0

PrivacyArgs == {NoneV, Some(TRUE), Some(FALSE)}

\* the process that makes every call when calls do not overlap
OneProc == {1}

\* privacy updates one at a time
PrivacyNext ==
    \/ \E p \in OneProc, r \in Resources, is_private \in PrivacyArgs :
          PUpdatePrivacy(p, r, is_private)
    \/ \E p \in OneProc : PUpdateResourcesPrivacy(p)
    \/ \E p \in OneProc : PExists(p)
    \/ \E p \in OneProc : PExistsAlias(p)
    \/ \E p \in OneProc : PDeleteAlias(p)
    \/ \E p \in OneProc : PUpdateAliases(p)

\* privacy updates from concurrent requests
PrivacyConcNext ==
    \/ \E p \in Procs, r \in Resources, is_private \in PrivacyArgs :
          PUpdatePrivacy(p, r, is_private)
    \/ \E p \in Procs : PUpdateResourcesPrivacy(p)
    \/ \E p \in Procs : PExists(p)
    \/ \E p \in Procs : PExistsAlias(p)
    \/ \E p \in Procs : PDeleteAlias(p)
    \/ \E p \in Procs : PUpdateAliases(p)

(***************************************************************************)
(* The search backend as datastore_multisearch sees it: every resource     *)
(* index holds record documents, each visible from one version up to (not  *)
(* including) another.                                                     *)
(***************************************************************************)
MaxPageSize == 3

MaxSearchSize == 1000

NowVersion == 9

Forever == 99

MissingSortValue == 0

DocIds == {1, 2}

ModifiedValues == {1, 2}

\* a record version: `has` are the data fields it has a value for, besides
\* _id, which every record has
DocWith(r, i, m, from, to, has) ==
    [index |-> prefix_resource(r), id |-> i, modified |-> m, from |-> from,
     to |-> to, has |-> has]

Doc(r, i, m, from, to) == DocWith(r, i, m, from, to, {})

\* lib.datastore_utils.trim_index_name / unprefix_index: the resource id of
\* an index name
trim_index_name(index) == index[2]

Min(x, y) == IF x < y THEN x ELSE y

Max(x, y) == IF x < y THEN y ELSE x

\* translate_query(query, query_version): the search a valid query stands for
translate_query(query, query_version) ==
    [query |-> << "bool", query, query_version >>, filter |-> NoneV,
     sort |-> << >>, search_after |-> NoneV, size |-> NoneV, index |-> {},
     aggs |-> FALSE, exists |-> NoneV]

\* an exists filter on fields of indexes: the record is of one of the
\* indexes and has a value for the field named with it
HasAny(doc, fields) ==
    \E f \in fields : f[1] = doc.index /\ f[2] \in doc.has \cup {"_id"}

\* whether the backend finds the translated query to match a document: {}
\* matches every record, q1 those with _id 1
Matches(query, doc) ==
    \/ query[2] = EmptyQuery
    \/ query[2] = "q1" /\ doc.id = 1

Visible(doc, cutoff) == doc.from <= cutoff /\ cutoff < doc.to

\* determine_resources_to_search(context, resource_ids,
\* resource_ids_and_versions): the requested resources the caller may see
\* and the requested ones it may not
determine_resources_to_search(available, resource_ids, by_version) ==
    LET requested ==
            IF ~IsNone(by_version)
            THEN DOMAIN Get(by_version)
            ELSE IF ~IsNone(resource_ids) /\ Get(resource_ids) # << >>
            THEN { Get(resource_ids)[i] : i \in DOMAIN Get(resource_ids) }
            ELSE available
    IN  [resource_ids |-> requested \cap available,
         skipped |-> requested \ available]

\* determine_version_filter(version, resource_ids,
\* resource_ids_and_versions): per index, the version its records are
\* searched at
determine_version_filter(version, resource_ids, by_version) ==
    [index \in { prefix_resource(r) : r \in resource_ids } |->
        IF ~IsNone(by_version)
        THEN Get(by_version)[trim_index_name(index)]
        ELSE IF IsNone(version) THEN NowVersion ELSE Get(version)]

\* a sort without the index as the last key
MultisearchSort_NoIndex == << "data.modified", "data._id" >>

\* the sort of datastore_multisearch
MultisearchSort == << "data.modified", "data._id", "_index" >>

\* the value a document sorts by under one sort key (a record without the
\* modified field sorts as the lowest value)
SortValue(doc, key) ==
    IF key = "data.modified"
    THEN IF IsNone(doc.modified) THEN MissingSortValue ELSE Get(doc.modified)
    ELSE IF key = "data._id" THEN doc.id
    ELSE doc.index

SortValues(doc, sort) == [i \in 1..Len(sort) |-> SortValue(doc, sort[i])]

\* index names compare as strings: with one prefix, as their resource ids
Rank(value, key) == IF key = "_index" THEN value[2] ELSE value

\* x comes strictly after y in the descending order of `sort`
SortsAfter(x, y, sort) ==
    \E i \in 1..Len(sort) :
        /\ \A j \in 1..(i - 1) : x[j] = y[j]
        /\ Rank(x[i], sort[i]) < Rank(y[i], sort[i])

RECURSIVE SortDesc(_, _)
SortDesc(docs, sort) ==
    IF docs = {} THEN << >>
    ELSE LET first == CHOOSE d \in docs : \A e \in docs :
                          ~SortsAfter(SortValues(d, sort),
                                      SortValues(e, sort), sort)
         IN  << first >> \o SortDesc(docs \ {first}, sort)

Hit(doc, sort) ==
    [data |-> [_id |-> doc.id, modified |-> doc.modified],
     index |-> doc.index, sort |-> SortValues(doc, sort)]

RECURSIVE TermsBuckets(_)
\* the buckets of a terms aggregation: most documents first, then by key
TermsBuckets(buckets) ==
    IF buckets = {} THEN << >>
    ELSE LET first == CHOOSE b \in buckets : \A c \in buckets :
                          \/ c.doc_count < b.doc_count
                          \/ /\ c.doc_count = b.doc_count
                             /\ b.key[2] <= c.key[2]
         IN  << first >> \o TermsBuckets(buckets \ {first})

\* multisearch.execute() for one search: the hits after the cursor, the
\* total of matching records, and the per-index buckets when asked for
EsSearch(search) ==
    LET matching == { d \in esDocs :
                        /\ d.index \in search.index
                        /\ Matches(search.query, d)
                        /\ Visible(d, Get(search.filter)[d.index])
                        /\ IsNone(search.exists)
                              \/ HasAny(d, Get(search.exists)) }
        ordered == SortDesc(matching, search.sort)
        rest == IF IsNone(search.search_after) THEN ordered
                ELSE SelectSeq(ordered,
                        LAMBDA d : SortsAfter(SortValues(d, search.sort),
                                              Get(search.search_after),
                                              search.sort))
        n == Min(Get(search.size), Len(rest))
        buckets == TermsBuckets({ [key |-> i,
                                   doc_count |-> Cardinality({ d \in matching :
                                                       d.index = i })] :
                                    i \in { d.index : d \in matching } })
    IN  [hits |-> [i \in 1..n |-> Hit(rest[i], search.sort)],
         total |-> Cardinality(matching),
         aggs |-> IF search.aggs THEN Some(buckets) ELSE NoneV]

\* calculate_after(result, size): the hits to return and the next cursor.
\* With size + 1 hits the extra hit is dropped and the cursor is the sort
\* tuple of the last hit kept; with size = 0 no hit is kept, and the call
\* either fails or takes the tuple of the only hit there is.
calculate_after(hits, size) ==
    IF Len(hits) > size
    THEN IF size > 0
         THEN { [raised |-> "", hits |-> SubSeq(hits, 1, size),
                 after |-> Some(hits[size].sort)] }
         ELSE { [raised |-> "IndexError", hits |-> << >>, after |-> NoneV],
                [raised |-> "", hits |-> << >>,
                 after |-> Some(hits[Len(hits)].sort)] }
    ELSE { [raised |-> "", hits |-> hits, after |-> NoneV] }

\* log_query(query, operation): the log with the entry added; a failing
\* sink loses the entry and nothing else
log_query(log, query, operation, sink_fails) ==
    IF sink_fails THEN log ELSE Append(log, << query, operation >>)

(***************************************************************************)
(* datastore_multisearch                                                   *)
(***************************************************************************)
NotAccessible == "The requested resources aren't accessible to this user"

\* an exception raised outside a try block leaves the action as it is
Propagate(raised, message) ==
    [status |-> "error", kind |-> raised, message |-> message]

\* size = max(0, min(size, 1000))
ClampSize(size) == Max(0, Min(size, MaxSearchSize))

\* a search for the page alone
RequestedSize_NoExtra(size) == size

\* the size + 1 the search asks for
RequestedSize(size) == size + 1

With(r, k, v) == [x \in DOMAIN r \cup {k} |-> IF x = k THEN v ELSE r[x]]

\* plugin.datastore_multisearch_modify_response(response) of the plugin
\* registered under `name`
ModifyResponse(name, response) ==
    IF name = "redact"
    THEN [response EXCEPT !.records =
            [i \in DOMAIN @ |-> [@[i] EXCEPT !.data = [_id |-> @._id]]]]
    ELSE With(response, "seen_by",
              (IF "seen_by" \in DOMAIN response THEN response.seen_by
               ELSE << >>) \o << name >>)

RECURSIVE ResponseChain_SameInput(_, _)
\* a loop that hands every plugin the response as it was assembled
ResponseChain_SameInput(registered, response) ==
    IF registered = << >> THEN << >>
    ELSE << [plugin |-> Head(registered), given |-> response,
             gave |-> ModifyResponse(Head(registered), response)] >>
         \o ResponseChain_SameInput(Tail(registered), response)

RECURSIVE ResponseChain(_, _)
\* for plugin in PluginImplementations(IVersionedDatastore):
\*     response = plugin.datastore_multisearch_modify_response(response)
\* as the calls made: which plugin, what it was given, what it gave back
ResponseChain(registered, response) ==
    IF registered = << >> THEN << >>
    ELSE LET gave == ModifyResponse(Head(registered), response)
         IN  << [plugin |-> Head(registered), given |-> response,
                 gave |-> gave] >>
             \o ResponseChain(Tail(registered), gave)

\* the value the loop leaves in `response`
ApplyPlugins(registered, response) ==
    LET chain == ResponseChain(registered, response)
    IN  IF chain = << >> THEN response ELSE chain[Len(chain)].gave

\* a guard that lets every resource list pass
NoResources_Never(resource_ids) == FALSE

\* if not resource_ids
NoResources(resource_ids) == resource_ids = {}

\* an action that does not log
LogCall_Skip(log, query, sink_fails) == log

\* log_query(query, u'multisearch')
LogCall(log, query, sink_fails) ==
    log_query(log, query, "multisearch", sink_fails)

\* the search datastore_multisearch builds
MultisearchSearch(a, resource_ids) ==
    [translate_query(a.query, a.query_version) EXCEPT
        !.filter = Some(determine_version_filter(a.version, resource_ids,
                                           a.resource_ids_and_versions)),
        !.sort = MultisearchSort,
        !.search_after = a.after,
        !.size = Some(RequestedSize(ClampSize(a.size))),
        !.index = { prefix_resource(r) : r \in resource_ids },
        !.aggs = a.top_resources]

\* a response that has top_resources whether asked for or not
MultisearchResponse_AlwaysTop(a, result, kept, skipped) ==
    [status |-> "ok", total |-> result.total, after |-> kept.after,
     records |-> [i \in DOMAIN kept.hits |->
                    [data |-> kept.hits[i].data,
                     resource |-> trim_index_name(kept.hits[i].index)]],
     skipped_resources |-> skipped,
     top_resources |->
        IF IsNone(result.aggs) THEN << >>
        ELSE [i \in DOMAIN Get(result.aggs) |->
                << trim_index_name(Get(result.aggs)[i].key),
                   Get(result.aggs)[i].doc_count >>]]

\* the response dict, from the result and the hits calculate_after kept
MultisearchResponse(a, result, kept, skipped) ==
    LET base == [status |-> "ok", total |-> result.total,
                 after |-> kept.after,
                 records |-> [i \in DOMAIN kept.hits |->
                                [data |-> kept.hits[i].data,
                                 resource |->
                                    trim_index_name(kept.hits[i].index)]],
                 skipped_resources |-> skipped]
    IN  IF a.top_resources
        THEN With(base, "top_resources",
                  [i \in DOMAIN Get(result.aggs) |->
                      << trim_index_name(Get(result.aggs)[i].key),
                         Get(result.aggs)[i].doc_count >>])
        ELSE base

TimerEvents ==
    << "validate", "translate", "determine_resources", "version_filter",
       "search_params", "run", "response", "response_modifiers", "log" >>

\* what one call of an action did: the response or the error the caller
\* gets, where a failure came from and as what it was raised, the searches
\* sent to the backend with their results, the query log it leaves, the
\* calls it made in order (events), the plugin calls with what each was
\* given and gave back (chain), the response or field collection as
\* assembled before the plugins and as handed on after them, and the version
\* field discovery ran at
Outcome(response, origin, raised, searches, results, log) ==
    [response |-> response, origin |-> origin, raised |-> raised,
     searches |-> searches, results |-> results, log |-> log,
     events |-> << >>, chain |-> << >>, assembled |-> NoneV,
     handed |-> NoneV, field_version |-> NoneV]

\* an action that sends the search before it validates the query
MultisearchSteps_SearchFirst ==
    << << "backend", "search" >>, << "call", "validate_query" >>,
       << "call", "translate_query" >>,
       << "call", "determine_resources_to_search" >>,
       << "call", "determine_version_filter" >>,
       << "call", "calculate_after" >> >>

\* the calls datastore_multisearch makes before the plugins, in order
MultisearchSteps ==
    << << "call", "validate_query" >>, << "call", "translate_query" >>,
       << "call", "determine_resources_to_search" >>,
       << "call", "determine_version_filter" >>, << "backend", "search" >>,
       << "call", "calculate_after" >> >>

\* the steps up to and including `last`
StepsTo(steps, last) ==
    SubSeq(steps, 1, CHOOSE i \in DOMAIN steps : steps[i] = last)

PluginSteps(registered) ==
    [i \in DOMAIN registered |-> << "plugin", registered[i] >>]

\* datastore_multisearch(context, query, ..., timings): the outcomes of one
\* call.  `fault` is what the environment does to it: "backend" makes the
\* search raise, "logger" makes the log sink fail.
datastore_multisearch(a0, fault, log) ==
    LET a == ApplyDefaults(a0)
        size == ClampSize(a.size)
        v == validate_query(a.query, a.query_version)
        res == determine_resources_to_search(accessible, a.resource_ids,
                                             a.resource_ids_and_versions)
        search == MultisearchSearch(a, res.resource_ids)
        result == EsSearch(search)
        upto(last) == StepsTo(MultisearchSteps, << "call", last >>)
        finish(kept) ==
            LET assembled == MultisearchResponse(a, result, kept, res.skipped)
                modified == ApplyPlugins(plugins, assembled)
                final == IF a.timings
                         THEN With(modified, "timings", TimerEvents)
                         ELSE modified
            IN  [Outcome(final, "", "", << search >>, << result >>,
                         LogCall(log, a.query, fault = "logger"))
                 EXCEPT !.events = upto("calculate_after")
                                   \o PluginSteps(plugins)
                                   \o << << "call", "log_query" >> >>,
                        !.chain = ResponseChain(plugins, assembled),
                        !.assembled = Some(assembled),
                        !.handed = Some(modified)]
    IN  IF ~v.ok
        THEN { [Outcome(Raise(v.raised, v.message), "validate", v.raised,
                        << >>, << >>, log)
                EXCEPT !.events = upto("validate_query")] }
        ELSE IF NoResources(res.resource_ids)
        THEN { [Outcome(ValidationError(NotAccessible),
                        "resolve", "toolkit.ValidationError", << >>, << >>,
                        log)
                EXCEPT !.events = upto("determine_resources_to_search")] }
        ELSE IF fault = "backend"
        THEN { [Outcome(Propagate("ConnectionError", "backend unavailable"),
                        "backend", "ConnectionError", << search >>, << >>,
                        log)
                EXCEPT !.events = StepsTo(MultisearchSteps,
                                          << "backend", "search" >>)] }
        ELSE { IF kept.raised # ""
               THEN [Outcome(Propagate(kept.raised, "no hit to take"),
                             "calculate_after", kept.raised, << search >>,
                             << result >>, log)
                     EXCEPT !.events = upto("calculate_after")]
               ELSE finish(kept) :
                  kept \in calculate_after(result.hits, size) }

(***************************************************************************)
(* datastore_guess_fields                                                  *)
(***************************************************************************)
MaxGuessSize == 25

\* g.lower()
lower(name) == IF name = "A" THEN "a" ELSE name

\* find_searched_resources(search, resource_ids): the resources with a
\* record the search matches
find_searched_resources(search, resource_ids) ==
    { r \in resource_ids :
        EsSearch([search EXCEPT !.index = {prefix_resource(r)}]).total > 0 }

\* get_all_fields(resource_ids): every field of the resources' mappings,
\* grouped under its case-normalised name
get_all_fields(resource_ids) ==
    UNION { { [group |-> lower(f), resource |-> r, field |-> f] :
                f \in esMapping[r] } : r \in resource_ids }

\* all_fields.ignore(group)
ignore(all_fields, groups) == { f \in all_fields : f.group \notin groups }

\* plugin.datastore_modify_guess_fields(resource_ids, all_fields) of the
\* plugin registered under `name`: "redact" takes group b out, "restore"
\* answers with a collection of its own making, the others hand back what
\* they were given
ModifyGuessFields(name, resource_ids, all_fields) ==
    IF name = "redact" THEN { f \in all_fields : f.group # "b" }
    ELSE IF name = "restore" THEN get_all_fields(resource_ids)
    ELSE all_fields

RECURSIVE FieldChain(_, _, _)
\* for plugin in PluginImplementations(IVersionedDatastore):
\*     all_fields = plugin.datastore_modify_guess_fields(resource_ids,
\*                                                       all_fields)
\* as the calls made
FieldChain(registered, resource_ids, all_fields) ==
    IF registered = << >> THEN << >>
    ELSE LET gave == ModifyGuessFields(Head(registered), resource_ids,
                                       all_fields)
         IN  << [plugin |-> Head(registered), given |-> all_fields,
                 gave |-> gave] >>
             \o FieldChain(Tail(registered), resource_ids, gave)

\* the value the loop leaves in `all_fields`
ApplyFieldPlugins(registered, resource_ids, all_fields) ==
    LET chain == FieldChain(registered, resource_ids, all_fields)
    IN  IF chain = << >> THEN all_fields ELSE chain[Len(chain)].gave

RECURSIVE SumCounts(_, _)
SumCounts(rs, counts) ==
    IF rs = {} THEN 0
    ELSE LET r == CHOOSE x \in rs : TRUE
         IN  counts[r] + SumCounts(rs \ {r}, counts)

\* one group of select_fields: the resources that have it and the records
\* the search matches in them that have a value in a field of the group
GroupInfo(all_fields, search, g) ==
    LET members == { f \in all_fields : f.group = g }
        rs == { f.resource : f \in members }
        counts == [r \in rs |->
                     EsSearch([search EXCEPT
                         !.index = {prefix_resource(r)},
                         !.exists = Some({ << prefix_resource(f.resource),
                                              f.field >> :
                                             f \in members })]).total]
    IN  [group |-> g, resources |-> rs,
         count |-> SumCounts(rs, counts),
         fields |-> { << f.resource, f.field >> : f \in members }]

\* a ranking by matching records first and resources second
RanksBefore_CountFirst(x, y) ==
    \/ x.count > y.count
    \/ /\ x.count = y.count
       /\ Cardinality(x.resources) > Cardinality(y.resources)

\* x ranks strictly before y: more resources, then more records
RanksBefore(x, y) ==
    \/ Cardinality(x.resources) > Cardinality(y.resources)
    \/ /\ Cardinality(x.resources) = Cardinality(y.resources)
       /\ x.count > y.count

RECURSIVE RankGroups(_)
RankGroups(groups) ==
    IF groups = {} THEN << >>
    ELSE LET first == CHOOSE g \in groups :
                          \A h \in groups : ~RanksBefore(h, g)
         IN  << first >> \o RankGroups(groups \ {first})

\* select_fields(all_fields, search, size): the size best ranked groups
select_fields(all_fields, search, size) ==
    LET ranked == RankGroups({ GroupInfo(all_fields, search, g) :
                                  g \in { f.group : f \in all_fields } })
    IN  SubSeq(ranked, 1, Min(size, Len(ranked)))

\* get_single_resource_fields(all_fields, resource_id, version, search,
\* size): the first size fields get_fields lists for the resource
get_single_resource_fields(all_fields, fields, resource_id, search, size) ==
    LET kept == SelectSeq(fields,
                    LAMBDA f : \E x \in all_fields :
                                  /\ x.resource = resource_id
                                  /\ x.field = f.id)
        count == EsSearch([search EXCEPT !.index =
                               {prefix_resource(resource_id)}]).total
    IN  [i \in 1..Min(size, Len(kept)) |->
            [group |-> lower(kept[i].id), resources |-> {resource_id},
             count |-> count,
             fields |-> { << resource_id, kept[i].id >> }]]

\* the version of field discovery always taken from `version`
UpToVersion_Single(version, by_version, resource_id) == version

\* up_to_version: the map's entry for the resource when there is a map,
\* the version otherwise
UpToVersion(version, by_version, resource_id) ==
    IF IsNone(by_version) THEN version ELSE Get(by_version)[resource_id]

\* the calls datastore_guess_fields makes before the plugins, in order
GuessFieldsSteps ==
    << << "call", "validate_query" >>, << "call", "translate_query" >>,
       << "call", "determine_resources_to_search" >>,
       << "call", "determine_version_filter" >>, << "backend", "search" >>,
       << "backend", "get_mapping" >> >>

\* datastore_guess_fields(context, query, ..., ignore_groups): the outcomes
\* of one call, each with the field cache it leaves
datastore_guess_fields(a0, fault, cache, log) ==
    LET a == ApplyDefaults(a0)
        ignore_groups == IF IsNone(a.ignore_groups) THEN {}
                         ELSE { lower(g) : g \in Get(a.ignore_groups) }
        v == validate_query(a.query, a.query_version)
        res == determine_resources_to_search(accessible, a.resource_ids,
                                             a.resource_ids_and_versions)
        version == IF IsNone(a.version) THEN NowVersion ELSE Get(a.version)
        search == [translate_query(a.query, a.query_version) EXCEPT
                     !.filter = Some(determine_version_filter(Some(version),
                                        res.resource_ids,
                                        a.resource_ids_and_versions)),
                     !.size = Some(0)]
        resource_ids == find_searched_resources(search, res.resource_ids)
        ignored == ignore(get_all_fields(resource_ids), ignore_groups)
        all_fields == ApplyFieldPlugins(plugins, resource_ids, ignored)
        upto(last) == StepsTo(GuessFieldsSteps, last)
        ok(fields, cache2, last, field_version) ==
            With([Outcome([status |-> "ok", fields |-> fields], "", "",
                          << search >>, << >>, log)
                  EXCEPT !.events = GuessFieldsSteps \o PluginSteps(plugins)
                                    \o << << "call", last >> >>,
                         !.chain = FieldChain(plugins, resource_ids, ignored),
                         !.assembled = Some(ignored),
                         !.handed = Some(all_fields),
                         !.field_version = field_version],
                 "cache", cache2)
        failed(response, origin, raised, searches, last) ==
            With([Outcome(response, origin, raised, searches, << >>, log)
                  EXCEPT !.events = upto(last)],
                 "cache", cache)
    IN  IF ~v.ok
        THEN { failed(Raise(v.raised, v.message), "validate", v.raised,
                      << >>, << "call", "validate_query" >>) }
        ELSE IF NoResources(res.resource_ids)
        THEN { failed(ValidationError(NotAccessible),
                      "resolve", "toolkit.ValidationError", << >>,
                      << "call", "determine_resources_to_search" >>) }
        ELSE IF fault = "backend"
        THEN { failed(Propagate("ConnectionError", "backend unavailable"),
                      "backend", "ConnectionError", << search >>,
                      << "backend", "search" >>) }
        ELSE IF Cardinality(resource_ids) = 1
        THEN LET resource_id == CHOOSE r \in resource_ids : TRUE
                 up_to_version ==
                     UpToVersion(version, a.resource_ids_and_versions,
                                 resource_id)
                 got == get_fields(cache, resource_id, Some(up_to_version))
             IN  { ok(get_single_resource_fields(all_fields, got.result[2],
                                                 resource_id, search,
                                                 a.size),
                      got.cache, "get_single_resource_fields",
                      Some(up_to_version)) }
        ELSE { ok(select_fields(all_fields, search,
                                Max(0, Min(a.size, MaxGuessSize))),
                  cache, "select_fields", NoneV) }

(***************************************************************************)
(* datastore_field_autocomplete                                            *)
(***************************************************************************)
\* get_available_datastore_resources(context, resource_ids): the requested
\* resources the caller may see, all it may see when none are requested
get_available_datastore_resources(available, resource_ids) ==
    IF IsNone(resource_ids) \/ Get(resource_ids) = << >> THEN available
    ELSE available \cap
         { Get(resource_ids)[i] : i \in DOMAIN Get(resource_ids) }

\* get_mappings(resource_ids): index name -> mapping
get_mappings(resource_ids) ==
    [index \in { prefix_resource(r) : r \in resource_ids } |->
        get_mapping(index)]

\* the strings `text in part` holds for
Substrings(part) ==
    IF part = "_id" THEN {"", "_", "i", "d", "_i", "id", "_id"}
    ELSE {"", part}

\* config[u'type']
FieldType(name) == IF name = "_id" THEN "long" ELSE "text"

\* datastore_field_autocomplete(context, text, resource_ids, lowercase)
datastore_field_autocomplete(a, fault, log) ==
    LET resource_ids ==
            get_available_datastore_resources(accessible, a.resource_ids)
        mappings == get_mappings(resource_ids)
        hit(index, name) ==
            /\ name \in mappings[index]
            /\ a.text \in Substrings(IF a.lowercase THEN lower(name)
                                     ELSE name)
        names == { name \in UNION { mappings[i] : i \in DOMAIN mappings } :
                     \E i \in DOMAIN mappings : hit(i, name) }
        fields == [name \in names |->
                     [r \in { trim_index_name(i) : i \in
                                { j \in DOMAIN mappings : hit(j, name) } } |->
                         [type |-> FieldType(name), fields |-> << >>]]]
        resolved == << << "call", "get_available_datastore_resources" >> >>
        fetched == resolved \o << << "backend", "get_mapping" >> >>
    IN  IF NoResources(resource_ids)
        THEN [Outcome(ValidationError(NotAccessible), "resolve",
                      "toolkit.ValidationError", << >>, << >>, log)
              EXCEPT !.events = resolved]
        ELSE IF fault = "backend"
        THEN [Outcome(Propagate("ConnectionError", "backend unavailable"),
                      "backend", "ConnectionError", << >>, << >>, log)
              EXCEPT !.events = fetched]
        ELSE [Outcome([status |-> "ok", count |-> Cardinality(names),
                       fields |-> fields], "", "", << >>, << >>, log)
              EXCEPT !.events = fetched]

(***************************************************************************)
(* datastore_hash_query                                                    *)
(***************************************************************************)
\* a digest that takes in how many queries have been logged
datastore_hash_query_Salted(a0, log) ==
    LET a == ApplyDefaults(a0)
        v == validate_query(a.query, a.query_version)
    IN  IF ~v.ok
        THEN Outcome(Raise(v.raised, v.message), "validate", v.raised,
                     << >>, << >>, log)
        ELSE Outcome([status |-> "ok",
                      hash |-> << hash_query(a.query, a.query_version),
                                  Len(log) >>],
                     "", "", << >>, << >>, log)

datastore_hash_query(a0, log) ==
    LET a == ApplyDefaults(a0)
        v == validate_query(a.query, a.query_version)
    IN  IF ~v.ok
        THEN Outcome(Raise(v.raised, v.message), "validate", v.raised,
                     << >>, << >>, log)
        ELSE Outcome([status |-> "ok",
                      hash |-> hash_query(a.query, a.query_version)],
                     "", "", << >>, << >>, log)

(***************************************************************************)
(* A client paging through one multisearch: it keeps the arguments, sends  *)
(* the cursor of the last response, and stops at a null cursor or an       *)
(* error.  Data and access do not change meanwhile.                        *)
(***************************************************************************)
SearchIdle ==
    /\ esDocs = {}
    /\ accessible = Resources
    /\ plugins = << >>
    /\ qlog = << >>
    /\ mcall = NoCall
    /\ cursor = NoneV
    /\ pages = << >>
    /\ spc = "idle"
    /\ errSeen = {}

\* the current record of every (resource, _id), modified or not
CurrentDocs ==
    { Doc(r, i, m, 1, Forever) :
        r \in Resources, i \in DocIds,
        m \in {NoneV} \cup { Some(t) : t \in ModifiedValues } }

\* a superseded version of record 1 of resource 1
OldDoc == Doc(1, 1, Some(2), 0, 1)

PagingDatasets ==
    { D \cup old :
        D \in { E \in SUBSET CurrentDocs :
                  \A x, y \in E : (x.index = y.index /\ x.id = y.id)
                                    => x = y },
        old \in { {}, {OldDoc} } }

PagingArgs ==
    { [query |-> q, query_version |-> NoneV, version |-> v,
       resource_ids |-> NoneV, resource_ids_and_versions |-> NoneV,
       size |-> n, after |-> NoneV, top_resources |-> FALSE,
       timings |-> FALSE] :
        q \in {NoneV, Some("q1")}, v \in {NoneV, Some(0)},
        n \in 0..MaxPageSize }

PagingInit ==
    /\ esDocs \in PagingDatasets
    /\ accessible = Resources
    /\ plugins = << >>
    /\ qlog = << >>
    /\ mcall \in { [status |-> "paging", args |-> a] : a \in PagingArgs }
    /\ cursor = NoneV
    /\ pages = << >>
    /\ spc = "paging"
    /\ errSeen = {}

\* the client calls datastore_multisearch with the cursor it holds
NextPage ==
    /\ spc = "paging"
    /\ \E out \in datastore_multisearch([mcall.args EXCEPT !.after = cursor],
                                        "none", qlog) :
          /\ pages' = Append(pages, [searches |-> out.searches,
                                     results |-> out.results,
                                     response |-> out.response])
          /\ qlog' = out.log
          /\ cursor' = IF out.response.status = "ok"
                       THEN out.response.after ELSE cursor
          /\ spc' = IF out.response.status # "ok" THEN "failed"
                    ELSE IF IsNone(out.response.after) THEN "done"
                    ELSE "paging"
    /\ UNCHANGED privacyVars
    /\ UNCHANGED << esDocs, accessible, plugins, mcall, errSeen, slugVars,
                    fieldVars >>

PagingNext == NextPage

(***************************************************************************)
(* The four query actions called one after another, against a fixed index, *)
(* by callers with any access, with and without registered plugins, while  *)
(* the backend, the database and the log sink may fail.                    *)
(***************************************************************************)
MaxLog == 1

\* resource 1 holds two records at version 1, one of which superseded a
\* record of version 0; resource 2 holds one record
ActionDocs ==
    { DocWith(1, 1, Some(2), 0, RequestVersion, {"b"}),
      DocWith(1, 1, Some(1), RequestVersion, Forever, {"A"}),
      DocWith(1, 2, NoneV, RequestVersion, Forever, {"A"}),
      DocWith(2, 1, Some(1), RequestVersion, Forever, {"A"}) }

\* the versions at which records of a resource came or went
VersionsOf(docs, r) ==
    { d.from : d \in { e \in docs : e.index = prefix_resource(r) } }

\* the fields records of a resource have, besides _id
FieldsOf(docs, r) ==
    UNION { d.has : d \in { e \in docs : e.index = prefix_resource(r) } }

\* << r, v, f >>: a record of r current at version v has a value for f
DataOf(docs, rs) ==
    { x \in UNION { { << trim_index_name(d.index), v, f >> :
                        v \in VersionsOf(docs, trim_index_name(d.index)),
                        f \in d.has } : d \in docs } :
        /\ x[1] \in rs
        /\ \E d \in docs : /\ d.index = prefix_resource(x[1])
                            /\ Visible(d, x[2])
                            /\ x[3] \in d.has }

SearchArgs(query, qv, version, ids, by_version, size, top, timings) ==
    [query |-> query, query_version |-> qv, version |-> version,
     resource_ids |-> ids, resource_ids_and_versions |-> by_version,
     size |-> size, after |-> NoneV, top_resources |-> top,
     timings |-> timings]

MultisearchArgs ==
    { SearchArgs(NoneV, NoneV, NoneV, NoneV, NoneV, 1, FALSE, FALSE),
      SearchArgs(Some("q1"), Some("v1"), Some(RequestVersion),
                 Some(<< 2, 1 >>), NoneV, 2, TRUE, TRUE),
      SearchArgs(NoneV, NoneV, NoneV, NoneV,
                 Some([r \in {1} |-> RequestVersion]), 0, FALSE, FALSE),
      SearchArgs(Some("bad"), NoneV, NoneV, NoneV, NoneV, 1, FALSE, FALSE),
      SearchArgs(NoneV, Some("v9"), NoneV, NoneV, NoneV, 1, FALSE, FALSE),
      SearchArgs(Some("bad"), Some("v9"), NoneV, NoneV, NoneV, 1, FALSE,
                 TRUE),
      SearchArgs(NoneV, NoneV, Some(0), Some(<< 2 >>),
                 Some([r \in {1} |-> RequestVersion]), 2, FALSE, FALSE),
      SearchArgs(NoneV, NoneV, Some(0), Some(<< 1, 2 >>), NoneV, 2, FALSE,
                 FALSE),
      SearchArgs(NoneV, NoneV, Some(RequestVersion), Some(<< 1 >>),
                 Some([r \in {} |-> RequestVersion]), 2, FALSE, FALSE),
      SearchArgs(NoneV, NoneV, NoneV, NoneV, NoneV, -1, FALSE, FALSE),
      SearchArgs(NoneV, NoneV, NoneV, NoneV, NoneV, MaxSearchSize + 1, TRUE,
                 FALSE) }

FieldArgs(query, query_version, resource_ids, size, ignore_groups) ==
    [query |-> query, query_version |-> query_version, version |-> NoneV,
     resource_ids |-> resource_ids, resource_ids_and_versions |-> NoneV,
     size |-> size, ignore_groups |-> ignore_groups]

\* a guess-fields request for every record at a version, by a map, or both
FieldArgsAt(version, resource_ids, by_version) ==
    [FieldArgs(NoneV, NoneV, resource_ids, 10, NoneV) EXCEPT
        !.version = version, !.resource_ids_and_versions = by_version]

GuessFieldsArgs ==
    { FieldArgs(NoneV, NoneV, NoneV, 10, NoneV),
      FieldArgs(Some("q1"), Some("v1"), Some(<< 1 >>), 1, Some({"A"})),
      FieldArgs(Some("bad"), NoneV, NoneV, 10, NoneV),
      FieldArgs(NoneV, Some("v9"), NoneV, 10, NoneV),
      FieldArgsAt(Some(0), Some(<< 1 >>), NoneV),
      FieldArgsAt(Some(RequestVersion), Some(<< 1, 2 >>), NoneV),
      FieldArgsAt(Some(0), Some(<< 2 >>),
                  Some([r \in {1} |-> RequestVersion])),
      FieldArgsAt(Some(RequestVersion), Some(<< 1, 2 >>),
                  Some([r \in {1} |-> 0])) }

AutocompleteArgs ==
    { [text |-> t, resource_ids |-> ids, lowercase |-> l] :
        t \in {"a", "id"}, ids \in {NoneV, Some(<< 2 >>)}, l \in BOOLEAN }

\* a hash request that spells out the defaults
DefaultsGiven ==
    [query |-> Some(EmptyQuery),
     query_version |-> Some(get_latest_query_version)]

HashQueryArgs ==
    { [query |-> q, query_version |-> v] :
        q \in {NoneV, Some("q1"), Some("bad")},
        v \in {NoneV, Some("v1"), Some("v9")} }
    \cup {DefaultsGiven}

CreateSlugArgs ==
    { a \in SlugArgs : IsNone(a.version) /\ IsNone(a.resource_ids_and_versions)
                       /\ a.pretty_slug }

Faults == {"none", "backend", "logger"}

\* what is wrong with a request's query, if anything
RequestClass(a0) ==
    IF "query" \notin DOMAIN a0 THEN "valid"
    ELSE LET a == ApplyDefaults(a0)
         IN  IF a.query_version \notin KnownQueryVersions
             THEN "unknown_version"
             ELSE IF a.query \notin WellFormedQueries THEN "malformed"
             ELSE "valid"

\* the record of the last call
Returned(action, a, fault, out) ==
    [status |-> "returned", action |-> action, args |-> a, fault |-> fault,
     response |-> out.response, origin |-> out.origin, raised |-> out.raised,
     searches |-> out.searches, events |-> out.events, chain |-> out.chain,
     assembled |-> out.assembled, handed |-> out.handed,
     field_version |-> out.field_version,
     logged |-> SubSeq(out.log, Len(qlog) + 1, Len(out.log))]

\* the validation failures seen so far: what was wrong, what the validator
\* raised and what the caller got
Observe(seen, a, out) ==
    IF out.origin = "validate"
    THEN seen \cup { [class |-> RequestClass(a), raised |-> out.raised,
                      kind |-> out.response.kind,
                      message |-> out.response.message] }
    ELSE seen

\* the installations the actions are called in: what the caller may read and
\* the plugins registered, in registration order
Sites ==
    { [accessible |-> Resources, plugins |-> << "restore", "redact", "tag" >>],
      [accessible |-> {1}, plugins |-> << >>],
      [accessible |-> {}, plugins |-> << "tag" >>] }

ActionsInit ==
    /\ SlugInit
    /\ PrivacyIdle
    /\ esVersions = [r \in Resources |-> VersionsOf(ActionDocs, r)]
    /\ esMapping = [r \in Resources |-> {"_id"} \cup FieldsOf(ActionDocs, r)]
    /\ esData = DataOf(ActionDocs, Resources)
    /\ ingests = 0
    /\ field_cache = << >>
    /\ fcall = NoCall
    /\ fpc = [p \in Procs |-> "idle"]
    /\ floc = [p \in Procs |-> NoLocals]
    /\ fseen = << >>
    /\ fcalls = 0
    /\ esDocs = ActionDocs
    /\ \E site \in Sites : /\ accessible = site.accessible
                            /\ plugins = site.plugins
    /\ qlog = << >>
    /\ mcall = NoCall
    /\ cursor = NoneV
    /\ pages = << >>
    /\ spc = "idle"
    /\ errSeen = {}

Multisearch(a, fault) ==
    /\ Len(qlog) < MaxLog
    /\ \E out \in datastore_multisearch(a, fault, qlog) :
          /\ mcall' = Returned("datastore_multisearch", a, fault, out)
          /\ qlog' = out.log
          /\ errSeen' = Observe(errSeen, a, out)
    /\ UNCHANGED privacyVars
    /\ UNCHANGED << esDocs, accessible, plugins, cursor, pages, spc,
                    slugVars, fieldVars >>

GuessFields(a, fault) ==
    /\ \E out \in datastore_guess_fields(a, fault, field_cache, qlog) :
          /\ mcall' = Returned("datastore_guess_fields", a, fault, out)
          /\ field_cache' = out.cache
          /\ errSeen' = Observe(errSeen, a, out)
    /\ UNCHANGED privacyVars
    /\ UNCHANGED << esDocs, accessible, plugins, qlog, cursor, pages, spc,
                    slugVars, esVersions, esMapping, esData, ingests, fcall,
                    fpc, floc, fseen, fcalls >>

HashQuery(a) ==
    /\ LET out == datastore_hash_query(a, qlog)
       IN  /\ mcall' = Returned("datastore_hash_query", a, "none", out)
           /\ errSeen' = Observe(errSeen, a, out)
    /\ UNCHANGED privacyVars
    /\ UNCHANGED << esDocs, accessible, plugins, qlog, cursor, pages, spc,
                    slugVars, fieldVars >>

\* datastore_create_slug from call to return
CreateSlug(a) ==
    /\ \E o \in create_slug(slugs, clock, ApplyDefaults(a)) :
          LET out == Outcome(CreateSlugResponse(o),
                             IF o.raised \in ValidationErrorKinds
                             THEN "validate"
                             ELSE IF o.raised # "" THEN "persistence"
                             ELSE IF IsNone(o.slug) THEN "no_slug" ELSE "",
                             o.raised, << >>, << >>, qlog)
          IN  /\ slugs' = o.store
              /\ clock' = IF o.store = slugs THEN clock ELSE clock + 1
              /\ mcall' = Returned("datastore_create_slug", a, "none", out)
              /\ errSeen' = Observe(errSeen, a, out)
    /\ UNCHANGED privacyVars
    /\ UNCHANGED << esDocs, accessible, plugins, qlog, cursor, pages, spc,
                    pc, req, ret, answers, calls, fieldVars >>

FieldAutocomplete(a, fault) ==
    /\ LET out == datastore_field_autocomplete(a, fault, qlog)
       IN  /\ mcall' = Returned("datastore_field_autocomplete", a, fault,
                                out)
           /\ errSeen' = Observe(errSeen, a, out)
    /\ UNCHANGED privacyVars
    /\ UNCHANGED << esDocs, accessible, plugins, qlog, cursor, pages, spc,
                    slugVars, fieldVars >>

ActionsNext ==
    \/ \E a \in MultisearchArgs, fault \in Faults : Multisearch(a, fault)
    \/ \E a \in GuessFieldsArgs, fault \in {"none", "backend"} :
          GuessFields(a, fault)
    \/ \E a \in AutocompleteArgs, fault \in {"none", "backend"} :
          FieldAutocomplete(a, fault)
    \/ \E a \in HashQueryArgs : HashQuery(a)
    \/ \E a \in CreateSlugArgs : CreateSlug(a)

(***************************************************************************)
(* Specifications                                                          *)
(***************************************************************************)
\* nothing has been called and nothing is indexed
IdleInit == SlugInit /\ FieldInit /\ SearchIdle /\ PrivacyIdle

\* the paging client is about to ask for its first page
SearchInit == SlugInit /\ FieldInit /\ PagingInit /\ PrivacyIdle

SpecSlug == IdleInit /\ [][SlugNext]_vars

SpecFields == IdleInit /\ [][FieldNext]_vars

SpecFieldsConc == IdleInit /\ [][FieldConcNext]_vars

SpecSearch == SearchInit /\ [][PagingNext]_vars

SpecActions == ActionsInit /\ [][ActionsNext]_vars

\* nothing has been called; indexes and aliases are as some history left them
PrivacyInit == SlugInit /\ FieldInit /\ SearchIdle /\ PrivacyStart

SpecPrivacy == PrivacyInit /\ [][PrivacyNext]_vars

SpecPrivacyConc == PrivacyInit /\ [][PrivacyConcNext]_vars

(***************************************************************************)
(* The actions next to the lookups they share state with: slugs are        *)
(* created and resolved, and fields are discovered through get_fields      *)
(* directly and through datastore_guess_fields, in any order.              *)
(***************************************************************************)
\* a request that is served and one that is refused, for every action
SharedSearchArgs ==
    { SearchArgs(NoneV, NoneV, NoneV, NoneV, NoneV, 1, FALSE, FALSE),
      SearchArgs(Some("bad"), NoneV, NoneV, NoneV, NoneV, 1, FALSE, FALSE) }

SharedFieldArgs ==
    { FieldArgs(Some("q1"), Some("v1"), Some(<< 1 >>), 1, Some({"A"})),
      FieldArgs(Some("bad"), NoneV, NoneV, 10, NoneV) }

SharedHashArgs ==
    { DefaultsGiven, [query |-> Some("bad"), query_version |-> NoneV] }

SharedVersionArgs == {NoneV, Some(RequestVersion)}

SharedNext ==
    \/ \E a \in SharedSearchArgs : Multisearch(a, "none")
    \/ \E a \in SharedFieldArgs : GuessFields(a, "none")
    \/ \E a \in SharedHashArgs : HashQuery(a)
    \/ \E a \in CreateSlugArgs : CreateSlug(a)
    \/ \E s \in SlugStrings : ResolveSlug(s)
    \/ \E r \in Resources, version \in SharedVersionArgs :
          GetFields(r, version)

SpecShared == ActionsInit /\ [][SharedNext]_vars

(***************************************************************************)
(* datastore_guess_fields over three resources whose records have fields   *)
(* of the same groups in different numbers.                                *)
(***************************************************************************)
GuessResources == {1, 2, 3}

\* the name resource r gives its field of group a
GroupAField(r) == IF r = 2 THEN "a" ELSE "A"

\* a record of resource r, current from RequestVersion on
GuessDoc(r, i, has) == DocWith(r, i, NoneV, RequestVersion, Forever, has)

\* the record sets resource r may hold
GuessProfiles(r) ==
    { {},
      { GuessDoc(r, 1, {GroupAField(r)}) },
      { GuessDoc(r, 1, {"b"}) },
      { GuessDoc(r, 1, {GroupAField(r), "b"}), GuessDoc(r, 2, {"b"}) } }

GuessDatasets ==
    { D1 \cup D2 \cup D3 :
        D1 \in GuessProfiles(1), D2 \in GuessProfiles(2),
        D3 \in GuessProfiles(3) }

RankingArgs ==
    { FieldArgs(NoneV, NoneV, ids, size, ignore_groups) :
        ids \in {NoneV, Some(<< 1, 2 >>)},
        size \in {-1, 1, 2, 30},
        ignore_groups \in {NoneV, Some({"A"}), Some({"_id"})} }

GuessInit ==
    /\ SlugInit
    /\ PrivacyIdle
    /\ esDocs \in GuessDatasets
    /\ esVersions = [r \in GuessResources |-> VersionsOf(esDocs, r)]
    /\ esMapping = [r \in GuessResources |->
                      {"_id"} \cup FieldsOf(esDocs, r)]
    /\ esData = DataOf(esDocs, GuessResources)
    /\ ingests = 0
    /\ field_cache = << >>
    /\ fcall = NoCall
    /\ fpc = [p \in Procs |-> "idle"]
    /\ floc = [p \in Procs |-> NoLocals]
    /\ fseen = << >>
    /\ fcalls = 0
    /\ accessible = GuessResources
    /\ plugins \in { << >>, << "restore" >>, << "redact", "tag" >> }
    /\ qlog = << >>
    /\ mcall = NoCall
    /\ cursor = NoneV
    /\ pages = << >>
    /\ spc = "idle"
    /\ errSeen = {}

GuessNext == \E a \in RankingArgs : GuessFields(a, "none")

SpecGuess == GuessInit /\ [][GuessNext]_vars


(***************************************************************************)
(* Properties of the slug store.                                           *)
(***************************************************************************)
\* C1: slug creation is idempotent.  Of the answers given for one parameter
\* hash, every answer after the first carries the slug string of the first
\* and is_new = false, and the table never holds two slugs with one hash.
C1_SlugIdempotent ==
    /\ \A h \in SlugHashes : \A i, j \in 1..Len(answers[h]) :
          i < j => /\ answers[h][j].slug = answers[h][i].slug
                   /\ ~answers[h][j].is_new
    /\ \A x, y \in slugs : x.hash = y.hash => x = y

\* a parameter tuple was answered twice, the first time as new, while a slug
\* for another tuple exists too
C1_Witness ==
    \E h \in SlugHashes :
        /\ Len(answers[h]) >= 2
        /\ answers[h][1].is_new
        /\ \E x \in slugs : x.hash # h

C8_SlugRoundTrip ==
    \A h \in SlugHashes : \A i \in 1..Len(answers[h]) :
        datastore_resolve_slug(slugs, answers[h][i].slug) =
            [status |-> "ok",
             query |-> answers[h][i].params.query,
             query_version |-> answers[h][i].params.query_version,
             version |-> answers[h][i].params.version,
             resource_ids |-> answers[h][i].params.resource_ids,
             resource_ids_and_versions |->
                 answers[h][i].params.resource_ids_and_versions,
             created |-> isoformat(answers[h][i].created)]

\* a slug with a non-default query was resolved after a later slug had been
\* created
C8_Witness ==
    /\ ret.status = "ok"
    /\ "created" \in DOMAIN ret
    /\ ret.query = "q1"
    /\ \E x \in slugs : isoformat(x.created) # ret.created /\ x.created > 1
    /\ \E x \in slugs : isoformat(x.created) = ret.created /\ x.created = 1

C7_RacingCallersAgree ==
    \A p \in Procs :
        (floc[p].status = "returned" /\ ~IsNone(floc[p].rounded)) =>
            LET k == CacheKey(floc[p].resource_id, floc[p].rounded)
            IN  /\ k \in DOMAIN field_cache
                /\ field_cache[k] = floc[p].result
                /\ floc[p].result[2][1] = IdField

(***************************************************************************)
(* Properties of pagination (SpecSearch)                                   *)
(***************************************************************************)
RECURSIVE PagedRecords(_)
PagedRecords(ps) ==
    IF ps = << >> THEN << >>
    ELSE Head(ps).response.records \o PagedRecords(Tail(ps))

\* the records the client's query matches at the version it asks for
MatchingRecords ==
    LET a == ApplyDefaults(mcall.args)
        cutoff == IF IsNone(a.version) THEN NowVersion ELSE Get(a.version)
    IN  { [data |-> [_id |-> d.id, modified |-> d.modified],
           resource |-> trim_index_name(d.index)] :
            d \in { e \in esDocs :
                      /\ Matches(translate_query(a.query,
                                                 a.query_version).query, e)
                      /\ Visible(e, cutoff) } }

RecordSortValues(rec) ==
    << IF IsNone(rec.data.modified) THEN MissingSortValue
       ELSE Get(rec.data.modified),
       rec.data._id, prefix_resource(rec.resource) >>

\* C2: with a page size of at least 1, following the returned cursor from
\* after = None until it is null never fails and yields every matching
\* record exactly once, in the order (modified desc, _id desc, index desc),
\* for every number of matching records; every page reports that number as
\* its total.
C2_PaginationComplete ==
    (spc # "idle" /\ mcall.args.size >= 1) =>
        /\ spc # "failed"
        /\ spc = "done" =>
              LET all == PagedRecords(pages)
              IN  /\ Len(all) = Cardinality(MatchingRecords)
                  /\ { all[i] : i \in DOMAIN all } = MatchingRecords
                  /\ \A i, j \in DOMAIN all :
                        i < j => SortsAfter(RecordSortValues(all[j]),
                                            RecordSortValues(all[i]),
                                            MultisearchSort)
                  /\ \A i \in DOMAIN pages :
                        pages[i].response.total = Cardinality(MatchingRecords)

\* four records in two full pages of two, two of them alike in modified
\* and _id and told apart by their index only
C2_Witness ==
    /\ spc = "done"
    /\ mcall.args.size = 2
    /\ Len(pages) = 2
    /\ Len(PagedRecords(pages)) = 4
    /\ \E i, j \in DOMAIN PagedRecords(pages) :
          /\ i # j
          /\ PagedRecords(pages)[i].data = PagedRecords(pages)[j].data

\* C3: every call asks the backend for size + 1 records; when size + 1
\* hits come back the response holds exactly the first size of them and a
\* non-null after equal to the sort tuple of the last record in the
\* response; when size or fewer come back all are returned and after is
\* null.
C3_CursorProtocol ==
    \A i \in DOMAIN pages :
        LET p == pages[i]
            size == ClampSize(mcall.args.size)
        IN  /\ p.searches[1].size = Some(size + 1)
            /\ p.response.status = "ok"
            /\ LET hits == p.results[1].hits
                   records == p.response.records
               IN  IF Len(hits) = size + 1
                   THEN /\ Len(records) = size
                        /\ \A k \in 1..size :
                              records[k].data = hits[k].data
                        /\ ~IsNone(p.response.after)
                        /\ size >= 1
                        /\ p.response.after = Some(hits[size].sort)
                   ELSE /\ Len(records) = Len(hits)
                        /\ \A k \in DOMAIN hits :
                              records[k].data = hits[k].data
                        /\ IsNone(p.response.after)

(***************************************************************************)
(* Properties of the errors the actions raise (SpecActions)                *)
(***************************************************************************)
\* C9: a call of any of the four actions whose query fails the schema or
\* names an unknown schema version raises toolkit.ValidationError; a call
\* that fails in the search backend or in the database raises that
\* failure's own exception, never toolkit.ValidationError.
C9_ErrorPropagation ==
    mcall.status = "returned" =>
        /\ RequestClass(mcall.args) # "valid" =>
              /\ mcall.response.status = "error"
              /\ mcall.response.kind = "toolkit.ValidationError"
              /\ mcall.searches = << >>
        /\ mcall.origin \in {"backend", "persistence"} =>
              /\ mcall.response.status = "error"
              /\ mcall.response.kind = mcall.raised
              /\ mcall.response.kind # "toolkit.ValidationError"

\* a database failure has left datastore_create_slug after validation
\* failures were turned into toolkit.ValidationError
C9_Witness ==
    /\ mcall.status = "returned"
    /\ mcall.action = "datastore_create_slug"
    /\ mcall.origin = "persistence"
    /\ mcall.response.kind = "OperationalError"
    /\ \E e \in errSeen : e.kind = "toolkit.ValidationError"

\* C10 as stated: an unknown query_version and a malformed query under a
\* known version never give the caller the same error kind.
C10_DistinctKinds ==
    \A e1, e2 \in errSeen :
        (e1.class = "unknown_version" /\ e2.class = "malformed")
            => e1.kind # e2.kind

\* C10 amended: the validator raises InvalidQuerySchemaVersionError for an
\* unknown query_version and jsonschema.ValidationError for a malformed
\* query; the action gives the caller toolkit.ValidationError in both
\* cases, with the message of the exception raised.
C10_OneKindAtBoundary ==
    \A e \in errSeen :
        /\ e.kind = "toolkit.ValidationError"
        /\ e.raised = IF e.class = "unknown_version"
                      THEN "InvalidQuerySchemaVersionError"
                      ELSE "jsonschema.ValidationError"
        /\ e.message = IF e.class = "unknown_version"
                       THEN "unknown query version"
                       ELSE "query fails schema"

\* datastore_guess_fields has refused a request after both kinds of bad
\* request were seen
C10_Witness ==
    /\ mcall.status = "returned"
    /\ mcall.action = "datastore_guess_fields"
    /\ mcall.origin = "validate"
    /\ \E e1, e2 \in errSeen :
          e1.class = "unknown_version" /\ e2.class = "malformed"

(***************************************************************************)
(* Properties of the resource resolver (SpecActions)                       *)
(***************************************************************************)
\* the actions that resolve the resources to search before anything else
ResolverActions ==
    {"datastore_multisearch", "datastore_guess_fields",
     "datastore_field_autocomplete"}

\* what the resolver made of the resources call c asked for
Resolution(c) ==
    IF c.action = "datastore_field_autocomplete"
    THEN [resource_ids |->
            get_available_datastore_resources(accessible,
                                              c.args.resource_ids),
          skipped |-> {}]
    ELSE LET a == ApplyDefaults(c.args)
         IN  determine_resources_to_search(accessible, a.resource_ids,
                                           a.resource_ids_and_versions)

\* call c got as far as the resolver and the resolver left nothing
NothingToSearch(c) ==
    /\ c.status = "returned"
    /\ c.action \in ResolverActions
    /\ RequestClass(c.args) = "valid"
    /\ Resolution(c).resource_ids = {}

\* C11: when the resolver leaves no resource to search, datastore_multisearch,
\* datastore_guess_fields and datastore_field_autocomplete fail with the
\* "resources aren't accessible" validation error; no search or mapping
\* request is sent, no plugin is invoked and no query is logged.
C11_NoAccessibleResources ==
    NothingToSearch(mcall) =>
        /\ mcall.response = ValidationError(NotAccessible)
        /\ mcall.searches = << >>
        /\ \A i \in DOMAIN mcall.events :
              mcall.events[i][1] \notin {"backend", "plugin"}
        /\ mcall.chain = << >>
        /\ mcall.logged = << >>

\* datastore_multisearch was refused for want of accessible resources while
\* plugins were registered and the caller could read some resource
C11_Witness ==
    /\ NothingToSearch(mcall)
    /\ mcall.action = "datastore_multisearch"
    /\ mcall.response.status = "error"
    /\ plugins # << >>

(***************************************************************************)
(* Properties of slug resolution and slug creation failures (SpecSlug)     *)
(***************************************************************************)
\* slug string s was given to a stored slug by create_slug
Created(s) == \E x \in slugs : x.slug_string = s

\* C12: datastore_resolve_slug of a slug string that was never created fails
\* with 'Slug not found' and gives no parameter tuple; of a slug string that
\* was created it gives the parameters and never 'Slug not found'.
C12_SlugNotFound ==
    [][\A s \in SlugStrings :
          ResolveSlug(s) =>
              IF Created(s)
              THEN /\ ret'.status = "ok"
                   /\ {"query", "query_version", "version", "resource_ids",
                       "resource_ids_and_versions", "created"}
                          \subseteq DOMAIN ret'
              ELSE /\ ret' = ValidationError("Slug not found")
                   /\ DOMAIN ret' \cap {"query", "version", "created"} = {}]_vars

\* a slug string nobody created was asked for while other slugs are stored
C12_Witness ==
    /\ ret = ValidationError("Slug not found")
    /\ slugs # {}
    /\ \E s \in SlugStrings : ~Created(s)

\* process p's create_slug returns without a slug and without raising
NoSlugStep(p) ==
    /\ ReturnCreateSlug(p)
    /\ ret'.status = "error"
    /\ validate_query(req[p].args.query, req[p].args.query_version).ok
    /\ ret'.kind # "OperationalError"

\* C13: when create_slug yields no slug, datastore_create_slug fails with
\* 'Failed to generate new slug': it gives no slug and no is_new, and no slug
\* is stored for the parameters asked.
C13_NoSlugGenerated ==
    [][\A p \in Procs :
          NoSlugStep(p) =>
              /\ ret' = ValidationError("Failed to generate new slug")
              /\ DOMAIN ret' \cap {"slug", "is_new"} = {}
              /\ slugs' = slugs
              /\ answers' = answers
              /\ \A x \in slugs' : x.hash # SlugHash(req[p].args)]_vars

\* datastore_create_slug has failed to generate a slug while slugs of other
\* parameters are stored
C13_Witness ==
    /\ ret = ValidationError("Failed to generate new slug")
    /\ slugs # {}
    /\ \E p \in Procs : pc[p] = "idle"

(***************************************************************************)
(* Properties of query logging and of the plugin chain (SpecActions)       *)
(***************************************************************************)
\* how many times call c made the call named by step
TimesDone(c, step) ==
    Cardinality({ i \in DOMAIN c.events : c.events[i] = step })

EventsOfKind(c, kind) == SelectSeq(c.events, LAMBDA e : e[1] = kind)

\* where in the calls of c the first call of step is, 0 if it was not made
StepAt(c, step) ==
    IF \E i \in DOMAIN c.events : c.events[i] = step
    THEN CHOOSE i \in DOMAIN c.events :
            /\ c.events[i] = step
            /\ \A j \in 1..(i - 1) : c.events[j] # step
    ELSE 0

\* plugin `name` applied to what call c handed it
Applied(c, name, given) ==
    IF c.action = "datastore_multisearch"
    THEN ModifyResponse(name, given)
    ELSE ModifyGuessFields(name,
                           find_searched_resources(c.searches[1],
                               Resolution(c).resource_ids),
                           given)

RECURSIVE Nested(_, _, _)
\* on(...o2(o1(r))...) for the plugins o1..on registered
Nested(c, registered, r) ==
    IF registered = << >> THEN r
    ELSE Applied(c, registered[Len(registered)],
                 Nested(c, SubSeq(registered, 1, Len(registered) - 1), r))

\* what the action does once the plugins are done
AfterPlugins(c) ==
    IF c.action = "datastore_multisearch" THEN << "call", "log_query" >>
    ELSE c.events[Len(c.events)]

\* C15: the registered plugins are applied as a chain in registration order,
\* each once, the first to the assembled response and each next one to what
\* the one before gave back; datastore_multisearch returns what the last
\* gave back, and datastore_guess_fields hands what the last gave back to
\* the ranking or selection, which starts after the last plugin is done.
C15_ObserverChain ==
    (/\ mcall.status = "returned"
     /\ mcall.action \in {"datastore_multisearch", "datastore_guess_fields"}
     /\ mcall.response.status = "ok") =>
        LET ch == mcall.chain
            r == Get(mcall.assembled)
            out == Get(mcall.handed)
        IN  /\ Len(ch) = Len(plugins)
            /\ \A i \in DOMAIN ch :
                  /\ ch[i].plugin = plugins[i]
                  /\ ch[i].given = IF i = 1 THEN r ELSE ch[i - 1].gave
                  /\ ch[i].gave = Applied(mcall, plugins[i], ch[i].given)
            /\ out = Nested(mcall, plugins, r)
            /\ EventsOfKind(mcall, "plugin") = PluginSteps(plugins)
            /\ \A i \in DOMAIN mcall.events :
                  mcall.events[i][1] = "plugin" =>
                      /\ i < StepAt(mcall, AfterPlugins(mcall))
                      /\ i > StepAt(mcall, << "backend", "search" >>)
            /\ IF mcall.action = "datastore_multisearch"
               THEN mcall.response =
                        IF ApplyDefaults(mcall.args).timings
                        THEN With(out, "timings", TimerEvents)
                        ELSE out
               ELSE AfterPlugins(mcall) \in
                        { << "call", "select_fields" >>,
                          << "call", "get_single_resource_fields" >> }

\* a search went through three plugins where the response returned is not
\* what any single one of them makes of the assembled response
C15_Witness ==
    /\ mcall.status = "returned"
    /\ mcall.action = "datastore_multisearch"
    /\ mcall.response.status = "ok"
    /\ Len(mcall.chain) = 3
    /\ mcall.response.records # << >>
    /\ \A i \in DOMAIN plugins :
          ModifyResponse(plugins[i], Get(mcall.assembled)) # mcall.response
    /\ mcall.chain[2].given # mcall.chain[1].given

(***************************************************************************)
(* Properties of resource and version resolution (SpecActions)             *)
(***************************************************************************)
\* C16: datastore_multisearch and datastore_guess_fields call the resource
\* resolver before any request goes to the search backend, and every
\* requested resource id the resolver filters out is in skipped_resources
\* of the result the caller gets.
C16_SkippedReported ==
    (/\ mcall.status = "returned"
     /\ mcall.action \in {"datastore_multisearch", "datastore_guess_fields"}
     /\ mcall.response.status = "ok") =>
        /\ StepAt(mcall, << "call", "determine_resources_to_search" >>) > 0
        /\ \A i \in DOMAIN mcall.events :
              mcall.events[i][1] = "backend" =>
                  i > StepAt(mcall,
                             << "call", "determine_resources_to_search" >>)
        /\ \A r \in Resolution(mcall).skipped :
              /\ "skipped_resources" \in DOMAIN mcall.response
              /\ r \in mcall.response.skipped_resources

\* the cut-off C17 gives resource r in a call with parameters a
CutOff(a, r) ==
    IF ~IsNone(a.resource_ids_and_versions)
    THEN Get(a.resource_ids_and_versions)[r]
    ELSE IF IsNone(a.version) THEN NowVersion ELSE Get(a.version)

\* the one resource a guess-fields call c was left with after narrowing
Remaining(c) ==
    find_searched_resources(c.searches[1], Resolution(c).resource_ids)

\* C17: the search of datastore_multisearch and of datastore_guess_fields
\* filters every searched resource at the cut-off the version map gives it
\* when a map is given, whatever resource_ids and version are, and at the
\* single version, or now when version is None, when no map is given; with
\* a map only resources the map names are searched.  Field discovery for
\* the one resource of a datastore_guess_fields runs at that same cut-off,
\* which is always defined.
C17_VersionPrecedence ==
    (/\ mcall.status = "returned"
     /\ mcall.action \in {"datastore_multisearch", "datastore_guess_fields"}
     /\ mcall.searches # << >>) =>
        LET a == ApplyDefaults(mcall.args)
            filter == Get(mcall.searches[1].filter)
            searched == Resolution(mcall).resource_ids
        IN  /\ DOMAIN filter = { prefix_resource(r) : r \in searched }
            /\ ~IsNone(a.resource_ids_and_versions) =>
                  searched \subseteq DOMAIN Get(a.resource_ids_and_versions)
            /\ \A r \in searched : filter[prefix_resource(r)] = CutOff(a, r)
            /\ (/\ mcall.action = "datastore_guess_fields"
                /\ mcall.response.status = "ok"
                /\ Cardinality(Remaining(mcall)) = 1) =>
                  /\ ~IsNone(mcall.field_version)
                  /\ \A r \in Remaining(mcall) :
                        Get(mcall.field_version) = CutOff(a, r)

\* field discovery for one resource ran at the cut-off of a map that names
\* neither the resource_ids nor the version the call gave
C17_Witness ==
    /\ mcall.status = "returned"
    /\ mcall.action = "datastore_guess_fields"
    /\ mcall.response.status = "ok"
    /\ ~IsNone(mcall.args.resource_ids_and_versions)
    /\ ~IsNone(mcall.args.version)
    /\ mcall.field_version # mcall.args.version
    /\ mcall.args.resource_ids = Some(<< 2 >>)
    /\ Remaining(mcall) = {1}

(***************************************************************************)
(* Properties of the sort order (SpecSearch)                               *)
(***************************************************************************)
\* the documents a search looks at: those of the searched indexes that are
\* current at the version each index is searched at
SearchedDocs(search) ==
    { d \in esDocs : /\ d.index \in search.index
                     /\ Visible(d, Get(search.filter)[d.index]) }

Ignored(c) ==
    IF IsNone(ApplyDefaults(c.args).ignore_groups) THEN {}
    ELSE { lower(g) : g \in Get(ApplyDefaults(c.args).ignore_groups) }

\* C20: no group datastore_guess_fields returns has a key equal to the
\* lower-cased form of an entry of ignore_groups, whatever the casing of the
\* entries and whatever plugins are registered.
C20_IgnoredGroupsAbsent ==
    (/\ mcall.status = "returned"
     /\ mcall.action = "datastore_guess_fields"
     /\ mcall.response.status = "ok") =>
        \A i \in DOMAIN mcall.response.fields :
            mcall.response.fields[i].group \notin Ignored(mcall)

\* the resources among rs whose mapping has a field of group g
ResourcesWith(rs, g) ==
    { r \in rs : \E f \in esMapping[r] : lower(f) = g }

\* the records of the resources rs that match search and have a value for a
\* field of group g
RecordsWith(search, rs, g) ==
    { d \in esDocs :
        /\ trim_index_name(d.index) \in rs
        /\ Visible(d, Get(search.filter)[d.index])
        /\ Matches(search.query, d)
        /\ \E f \in d.has \cup {"_id"} : lower(f) = g }

\* C19: the groups datastore_guess_fields returns for several resources are
\* in descending order of the number of resources that have the group and,
\* among groups of as many resources, of the number of matching records;
\* with size = k they are the first k groups of that order.
C19_GroupRanking ==
    (/\ mcall.status = "returned"
     /\ mcall.action = "datastore_guess_fields"
     /\ mcall.response.status = "ok"
     /\ mcall.events[Len(mcall.events)] = << "call", "select_fields" >>) =>
        LET fs == mcall.response.fields
            search == mcall.searches[1]
            groups == { f.group : f \in Get(mcall.handed) }
            k == Max(0, Min(mcall.args.size, 25))
            res(g) == ResourcesWith(Remaining(mcall), g)
            cnt(g) == Cardinality(RecordsWith(search, res(g), g))
            before(g, h) ==
                \/ Cardinality(res(g)) > Cardinality(res(h))
                \/ /\ Cardinality(res(g)) = Cardinality(res(h))
                   /\ cnt(g) > cnt(h)
            returned == { fs[i].group : i \in DOMAIN fs }
        IN  /\ Len(fs) = Min(k, Cardinality(groups))
            /\ returned \subseteq groups
            /\ \A i \in DOMAIN fs :
                  /\ fs[i].resources = res(fs[i].group)
                  /\ fs[i].count = cnt(fs[i].group)
            /\ \A i, j \in DOMAIN fs :
                  i < j => /\ fs[i].group # fs[j].group
                           /\ ~before(fs[j].group, fs[i].group)
            /\ \A g \in groups \ returned : \A i \in DOMAIN fs :
                  ~before(g, fs[i].group)

\* of two groups asked for, a group of three resources with three matching
\* records was returned before a group of two resources with four
C19_Witness ==
    /\ mcall.status = "returned"
    /\ mcall.action = "datastore_guess_fields"
    /\ mcall.response.status = "ok"
    /\ mcall.args.size = 2
    /\ Len(mcall.response.fields) = 2
    /\ Cardinality(mcall.response.fields[1].resources) = 3
    /\ mcall.response.fields[1].count = 3
    /\ Cardinality(mcall.response.fields[2].resources) = 2
    /\ mcall.response.fields[2].count = 4

(***************************************************************************)
(* Properties of the size parameter (SpecActions)                          *)
(***************************************************************************)
\* size brought into [0, most]
Clamped(size, most) == Max(0, Min(size, most))

SortedAt(name) == CHOOSE i \in DOMAIN FieldOrder : FieldOrder[i] = name

\* the last get_fields call missed the cache for a version that exists
MissAtVersion ==
    /\ fcall.status = "done"
    /\ fcall.mapping_fetches = 1
    /\ ~IsNone(fcall.rounded)

\* C22: on a cache miss with rounded version R, get_fields returns the _id
\* field of type integer followed, in sorted name order, by exactly the
\* declared data fields that some record has a value for at R, each of type
\* string; fields without such a record are left out, and one existence
\* query is issued per declared field other than _id.
C22_FieldList ==
    MissAtVersion =>
        LET mapping == fcall.result[1]
            fields == fcall.result[2]
            declared == mapping \ {"_id"}
            populated == { f \in declared :
                             << fcall.resource_id, Get(fcall.rounded), f >>
                                 \in esData }
        IN  /\ fields[1] = [id |-> "_id", type |-> "integer"]
            /\ { fields[i].id : i \in 2..Len(fields) } = populated
            /\ Len(fields) = 1 + Cardinality(populated)
            /\ \A i \in 2..Len(fields) : fields[i].type = "string"
            /\ \A i, j \in 2..Len(fields) :
                  i < j => SortedAt(fields[i].id) < SortedAt(fields[j].id)
            /\ fcall.exists_queries = Cardinality(declared)

\* a miss for a resource with two declared data fields of which only the
\* one that sorts last has a value at the version asked
C22_Witness ==
    /\ MissAtVersion
    /\ fcall.exists_queries = 2
    /\ Len(fcall.result[2]) = 2
    /\ fcall.result[2][2].id = "b"

\* the step is a get_fields call: the backend is as it was and the call is
\* the last one done
GetFieldsStep ==
    /\ UNCHANGED << esVersions, esMapping, esData >>
    /\ fcall'.status = "done"

\* C23: a get_fields call for which no version exists returns the mapping
\* as fetched with the _id field alone, issues no existence query and leaves
\* field_cache as it was; no key of field_cache lacks a version, so a call
\* made once a version exists fetches the mapping and queries every declared
\* field instead of being served the incomplete list.
C23_NoVersionNotCached ==
    [][\A r \in Resources :
          (GetFieldsStep /\ fcall'.resource_id = r) =>
              /\ \A k \in DOMAIN field_cache' : ~IsNone(k[2])
              /\ IsNone(fcall'.rounded) =>
                    /\ fcall'.result = << esMapping[r], << IdField >> >>
                    /\ fcall'.mapping_fetches = 1
                    /\ fcall'.exists_queries = 0
                    /\ field_cache' = field_cache
              /\ (/\ ~IsNone(fcall'.rounded)
                  /\ CacheKey(r, fcall'.rounded) \notin DOMAIN field_cache) =>
                    /\ fcall'.mapping_fetches = 1
                    /\ fcall'.exists_queries =
                          Cardinality(esMapping[r] \ {"_id"})
                    /\ CacheKey(r, fcall'.rounded) \in DOMAIN field_cache']_vars

\* a call for a version before the first one of a resource whose mapping
\* declares data fields returned the _id field alone, and the cache holds
\* nothing for that resource
C23_Witness ==
    /\ fcall.status = "done"
    /\ IsNone(fcall.rounded)
    /\ esVersions[fcall.resource_id] # {}
    /\ Cardinality(fcall.result[1]) >= 2
    /\ fcall.result[2] = << IdField >>
    /\ \A k \in DOMAIN field_cache : k[1] # fcall.resource_id

(***************************************************************************)
(* Properties of the parts of the multisearch response (SpecActions)       *)
(***************************************************************************)
\* the records of resource r that search matches
MatchesIn(search, r) ==
    { d \in esDocs : /\ d.index = prefix_resource(r)
                     /\ Visible(d, Get(search.filter)[d.index])
                     /\ Matches(search.query, d) }

\* C24: the response of a datastore_multisearch has top_resources exactly
\* when top_resources was asked for, and then one entry per searched
\* resource with matching records, under the resource id and with the
\* number of its matching records; it has timings exactly when timings was
\* asked for; it always has total, after, records and skipped_resources; and
\* the resource of every record is the id of the resource the record is in.
C24_ResponseParts ==
    (/\ mcall.status = "returned"
     /\ mcall.action = "datastore_multisearch"
     /\ mcall.response.status = "ok") =>
        LET a == ApplyDefaults(mcall.args)
            response == mcall.response
            search == mcall.searches[1]
            searched == Resolution(mcall).resource_ids
        IN  /\ {"total", "after", "records", "skipped_resources"}
                  \subseteq DOMAIN response
            /\ ("timings" \in DOMAIN response) = a.timings
            /\ ("top_resources" \in DOMAIN response) = a.top_resources
            /\ a.top_resources =>
                  LET top == response.top_resources
                  IN  /\ { top[i] : i \in DOMAIN top } =
                            { << r, Cardinality(MatchesIn(search, r)) >> :
                                r \in { x \in searched :
                                          MatchesIn(search, x) # {} } }
                      /\ \A i, j \in DOMAIN top :
                            i < j => /\ top[i][1] # top[j][1]
                                     /\ top[i][2] >= top[j][2]
            /\ \A i \in DOMAIN response.records :
                  /\ response.records[i].resource \in searched
                  /\ \E d \in MatchesIn(search, response.records[i].resource) :
                        d.id = response.records[i].data._id

\* a search over two resources returned records, the counts of both
\* resources, the larger first, and no timings
C24_Witness ==
    /\ mcall.status = "returned"
    /\ mcall.action = "datastore_multisearch"
    /\ mcall.response.status = "ok"
    /\ "top_resources" \in DOMAIN mcall.response
    /\ "timings" \notin DOMAIN mcall.response
    /\ Len(mcall.response.top_resources) = 2
    /\ mcall.response.top_resources[1][2] > mcall.response.top_resources[2][2]
    /\ Len(mcall.response.records) = 3

(***************************************************************************)
(* Properties of datastore_hash_query (SpecActions)                        *)
(***************************************************************************)
\* what datastore_hash_query answers to request a in the current state
HashAnswer(a) == datastore_hash_query(a, qlog).response

\* what it answers to request a where nothing was ever logged
HashAnswerAtStart(a) == datastore_hash_query(a, << >>).response

\* C25: in every reachable state the answer of datastore_hash_query to a
\* request is the one it gives in the initial state, so two calls with the
\* same query and query_version get the same digest whatever happened in
\* between; a call that leaves out the arguments gets the digest of
\* query = {} at the latest schema version; a request whose query fails
\* validation gets no digest; and a returned call carries that answer.
C25_HashDeterministic ==
    /\ \A a \in HashQueryArgs :
          /\ HashAnswer(a) = HashAnswerAtStart(a)
          /\ IF RequestClass(a) = "valid"
             THEN HashAnswer(a).status = "ok" /\ "hash" \in DOMAIN HashAnswer(a)
             ELSE /\ HashAnswer(a).status = "error"
                  /\ "hash" \notin DOMAIN HashAnswer(a)
          /\ (IsNone(a.query) /\ IsNone(a.query_version)) =>
                HashAnswer(a) = HashAnswer(DefaultsGiven)
    /\ (mcall.status = "returned" /\ mcall.action = "datastore_hash_query") =>
          mcall.response = HashAnswerAtStart(mcall.args)

\* a digest was returned for a request without arguments after a query was
\* logged, a slug was created and the field cache was filled
C25_Witness ==
    /\ mcall.status = "returned"
    /\ mcall.action = "datastore_hash_query"
    /\ mcall.args = [query |-> NoneV, query_version |-> NoneV]
    /\ "hash" \in DOMAIN mcall.response
    /\ qlog # << >>
    /\ slugs # {}
    /\ field_cache # << >>

(***************************************************************************)
(* Properties of the order of steps in datastore_multisearch (SpecActions) *)
(***************************************************************************)
\* the calls of a datastore_multisearch that completes, in the order claimed
ClaimedOrder ==
    << << "call", "validate_query" >>, << "call", "translate_query" >>,
       << "call", "determine_resources_to_search" >>,
       << "call", "determine_version_filter" >>, << "backend", "search" >>,
       << "call", "calculate_after" >> >>
    \o [i \in DOMAIN plugins |-> << "plugin", plugins[i] >>]
    \o << << "call", "log_query" >> >>

\* the call a failure of the given origin is raised from
FailingStep(origin) ==
    CASE origin = "validate" -> << "call", "validate_query" >>
      [] origin = "resolve" -> << "call", "determine_resources_to_search" >>
      [] origin = "backend" -> << "backend", "search" >>
      [] origin = "calculate_after" -> << "call", "calculate_after" >>

\* C26: the calls of one datastore_multisearch are a prefix of validate,
\* translate, resolve resources, version filter, search, assemble, plugins in
\* registration order, log; a call that completes made them all, and the
\* timings are added to what the last plugin handed back; a call that fails
\* stops at the failing call, with no response assembled, no plugin called
\* and nothing logged; and a request that is not valid stops at validation,
\* with no resolution, no search, no plugin call and no log entry.
C26_StepOrder ==
    (mcall.status = "returned" /\ mcall.action = "datastore_multisearch") =>
        /\ \E n \in 0..Len(ClaimedOrder) :
              mcall.events = SubSeq(ClaimedOrder, 1, n)
        /\ (mcall.searches # << >>) <=>
              (StepAt(mcall, << "backend", "search" >>) # 0)
        /\ Len(mcall.chain) = Len(EventsOfKind(mcall, "plugin"))
        /\ IF mcall.response.status = "ok"
           THEN /\ mcall.events = ClaimedOrder
                /\ ~IsNone(mcall.assembled)
                /\ ~IsNone(mcall.handed)
                /\ "timings" \notin DOMAIN Get(mcall.assembled)
                /\ "timings" \notin DOMAIN Get(mcall.handed)
                /\ \A i \in DOMAIN mcall.chain :
                      /\ "timings" \notin DOMAIN mcall.chain[i].given
                      /\ "timings" \notin DOMAIN mcall.chain[i].gave
                /\ ("timings" \in DOMAIN mcall.response) <=>
                      mcall.args.timings
                /\ mcall.args.timings =>
                      mcall.response =
                          With(Get(mcall.handed), "timings",
                               mcall.response.timings)
           ELSE /\ mcall.events # << >>
                /\ mcall.events[Len(mcall.events)] = FailingStep(mcall.origin)
                /\ IsNone(mcall.assembled)
                /\ IsNone(mcall.handed)
                /\ mcall.chain = << >>
                /\ mcall.logged = << >>
                /\ "timings" \notin DOMAIN mcall.response
        /\ RequestClass(mcall.args) # "valid" =>
              /\ mcall.response.status = "error"
              /\ mcall.events = << << "call", "validate_query" >> >>
              /\ mcall.searches = << >>
              /\ mcall.chain = << >>
              /\ mcall.logged = << >>

\* a search with timings has completed where three plugins are registered
C26_Witness ==
    /\ mcall.status = "returned"
    /\ mcall.action = "datastore_multisearch"
    /\ mcall.response.status = "ok"
    /\ "timings" \in DOMAIN mcall.response
    /\ Len(mcall.chain) = 3
    /\ Len(mcall.events) = 10
    /\ mcall.logged # << >>

(***************************************************************************)
(* Frame conditions on the slug table and the field cache (SpecShared)     *)
(***************************************************************************)
\* the step is one of the actions that only read the slug table
ReadsSlugsOnly ==
    \/ \E s \in SlugStrings : ResolveSlug(s)
    \/ \E a \in SharedSearchArgs : Multisearch(a, "none")
    \/ \E a \in SharedFieldArgs : GuessFields(a, "none")
    \/ \E a \in SharedHashArgs : HashQuery(a)

\* the key get_fields(r, version) looks up in the current state
KeyOf(r, version) ==
    CacheKey(r, get_rounded_versions(prefix_resource(r), version))

\* C27: datastore_resolve_slug, datastore_multisearch,
\* datastore_guess_fields and datastore_hash_query leave the slug table as
\* it is; datastore_create_slug sends no search, leaves the table as it is
\* when it answers is_new = false or fails, and otherwise adds the one slug
\* it answers with; get_fields leaves field_cache as it is on a hit, and on
\* a miss changes no entry and adds no key but the one it was called for.
C27_Frames ==
    [][/\ ReadsSlugsOnly => slugs' = slugs
       /\ \A a \in CreateSlugArgs : CreateSlug(a) =>
             /\ mcall'.searches = << >>
             /\ EventsOfKind(mcall', "backend") = << >>
             /\ IF mcall'.response.status = "ok" /\ mcall'.response.is_new
                THEN /\ slugs \subseteq slugs'
                     /\ Cardinality(slugs' \ slugs) = 1
                     /\ \A x \in slugs' \ slugs :
                           x.slug_string = mcall'.response.slug
                ELSE slugs' = slugs
       /\ \A r \in Resources, version \in SharedVersionArgs :
             GetFields(r, version) =>
                IF KeyOf(r, version) \in DOMAIN field_cache
                THEN /\ field_cache' = field_cache
                     /\ fcall'.mapping_fetches = 0
                ELSE /\ DOMAIN field_cache \subseteq DOMAIN field_cache'
                     /\ DOMAIN field_cache' \subseteq
                           DOMAIN field_cache \cup {KeyOf(r, version)}
                     /\ \A k \in DOMAIN field_cache :
                           field_cache'[k] = field_cache[k]]_vars

\* a slug was found by a lookup, the last action answered is_new = false for
\* it, and the last get_fields was served from a cache of two entries
C27_Witness ==
    /\ slugs # {}
    /\ ret.status = "ok"
    /\ mcall.status = "returned"
    /\ mcall.action = "datastore_create_slug"
    /\ mcall.response.status = "ok"
    /\ ~mcall.response.is_new
    /\ fcall.status = "done"
    /\ fcall.mapping_fetches = 0
    /\ Cardinality(DOMAIN field_cache) = 2

(***************************************************************************)
(* Properties of the privacy updates (SpecPrivacy, SpecPrivacyConc)        *)
(***************************************************************************)
\* the aliases in A other than the public alias of resource r
OtherAliases(A, r) == A \ {PublicAlias(r)}

\* what holds of an update_privacy call no other call overlapped
AloneCallHolds(c) ==
    /\ c.raised = ""
    /\ OtherAliases(c.after, c.resource_id) =
          OtherAliases(c.before, c.resource_id)
    /\ IF c.index_exists
       THEN (PublicAlias(c.resource_id) \in c.after) <=> ~c.is_private
       ELSE c.issued = 0 /\ c.after = c.before
    /\ c.repeat => c.issued = 0 /\ c.after = c.before

\* what holds of every alias request served
RequestHolds(q) ==
    /\ q.index = prefix_resource(q.resource_id)
    /\ q.alias = get_public_alias_name(q.resource_id)
    /\ q.op = "add" => ~q.present
    /\ q.op = "delete" => q.present

\* C28: an update_privacy(resource_id, is_private) call that no other call
\* overlaps leaves the public alias of a resource whose index exists present
\* exactly when is_private is false, issues no alias request when it repeats
\* the call before it or when the index does not exist, and leaves the
\* aliases of other resources alone; and every alias request served, also
\* among overlapping calls, names the caller's resource, adds only an alias
\* that is not there and deletes only one that is.
C28_PrivacyAliases ==
    /\ (plast.status = "done" /\ plast.alone) => AloneCallHolds(plast)
    /\ preq.op # "none" => RequestHolds(preq)

============================================================================
